---- MODULE Spec2Model ----
(***************************************************************************)
(* Model of the HBD Thermal Flex plant solution pipeline                   *)
(* (src/src/hbd/engine.py, PlantEngine) together with the parts of the    *)
(* unit registry, the defaults table and the unit contract it calls.      *)
(*                                                                         *)
(* A stream endpoint string "unit.port" is the tuple of its dot-separated  *)
(* segments, <<"A", "outlet">>.  Python dicts are functions; {} is        *)
(* EmptyDict.  A dict whose insertion order matters (a unit's params, on  *)
(* their way to json.dumps) is the sequence of its <<key, value>> items.  *)
(* Powers are whole MW, temperatures whole degrees C, the closure error   *)
(* is in tenths of a percent, efficiencies are in thousandths.            *)
(***************************************************************************)
EXTENDS Integers, Sequences, FiniteSets, TLC

VARIABLES
    pc,            \* position of the one simulate call in PlantEngine.simulate
    plant_graph,   \* PlantEngine.plant_graph
    run_case,      \* PlantEngine.run_case
    unit_states,   \* PlantEngine.unit_states
    violations,    \* PlantEngine.violations
    registry,      \* UnitRegistry._units after discovery: type key -> unit class
    contract_outputs, \* what evaluate of the registered contract class returns
    idx,           \* loop position of _block_solvers in plant_graph.units
    evalLog,       \* history: unit ids whose evaluate was invoked, in order
    stages,        \* history: pipeline stages entered, in order
    convergence_info, \* local of simulate: the MassEnergyBalance of step 4
    summary,       \* local of simulate: the PlantSummary of step 5
    result,        \* the Result simulate returned, or None
    error,         \* the exception that left simulate, or None
    defaults,      \* DefaultsManager._defaults of the module-level defaults_manager
    args,          \* history: the caller's PlantGraph and RunCase as passed in
    clock,         \* the last reading of datetime.utcnow()
    engines,       \* several calls: the fields of each PlantEngine instance
    calls,         \* several calls: each simulate call's arguments, position and locals
    discovered,    \* UnitRegistry._discovered
    threads,       \* registry use: each thread's operation, position and locals
    entry_points,  \* the unit classes the "hbd.units" entry points offer
    reglog,        \* history of the registry: discovery bodies begun, answers given
    disk,          \* api: the schema, palette and example graph files on disk
    lru_cache,     \* api: what the lru_cache of each loader holds, or None
    responses,     \* api history: what list_schemas and get_unit_palette last returned
    stop_event,    \* run_dev: asyncio.Event stop_event, set or not
    process,       \* run_dev: each child process, its signals and its pipes
    tasks          \* run_dev: position of each child's wait and stop task

\* the variables of the model of several simulate calls
callsVars == <<engines, calls>>

\* the variables of the model of the registry's operations
registryVars == <<discovered, threads, entry_points, reglog>>

\* the variables of the models of the api handlers and of the dev launcher
serviceVars == <<disk, lru_cache, responses, stop_event, process, tasks>>

vars == <<pc, plant_graph, run_case, unit_states, violations, registry,
          contract_outputs, idx, evalLog, stages, convergence_info, summary,
          result, error, defaults, args, clock, callsVars, registryVars, serviceVars>>

\* Python's None
None == [none |-> TRUE]

\* ------------------------------------------------------------------ bounds
MaxUnits == 2
MaxStreams == 2

\* the readings of the clock are 0..MaxClock
MaxClock == 1

\* registry use: entry points offered, operations each thread calls
MaxEntryPoints == 2
\* ... by each of two threads, and by a thread that is alone
MaxOps == 2
MaxOpsAlone == 4

\* evaluate calls on one steam turbine instance
MaxEvaluations == 2

\* ------------------------------------------------------- python primitives
EmptyDict == [k \in {} |-> None]

DictGet(d, k, default) == IF k \in DOMAIN d THEN d[k] ELSE default

SeqUpTo(S, n) == UNION {[1..k -> S] : k \in 0..n}

\* stream.from_.split('.')[0] / stream.to.split('.')[0]
UnitOf(endpoint) == endpoint[1]

\* stream.to.split('.')[1] / stream.from_.split('.')[1]
PortOf(endpoint) == endpoint[2]

\* stream.to.startswith(f"{unit_id}.")
FeedsUnit(endpoint, unit_id) == Len(endpoint) >= 2 /\ endpoint[1] = unit_id

\* ------------------------------------------------------------------ inputs
UnitIds == {"A", "B"}

\* "steam_turbine" is a key of the defaults table, "Boiler" is never
\* registered
TypeKeys == {"GasTurbine", "SteamTurbineHP", "steam_turbine", "Boiler"}

\* UnitDefinition.params as the caller wrote it: the items in insertion order
NoParams == <<>>

OutOfRangeParams == << <<"eta_isentropic", 2000>> >>

OverridingParams == << <<"eta_isentropic", 950>> >>

\* the (type, params) pairs of the unit definitions considered
UnitVariants ==
    {<<"GasTurbine", NoParams>>, <<"GasTurbine", OutOfRangeParams>>,
     <<"SteamTurbineHP", NoParams>>, <<"Boiler", NoParams>>,
     <<"steam_turbine", OverridingParams>>}

UnitDefinitions ==
    {[id |-> u, type |-> v[1], params |-> v[2]] : u \in UnitIds, v \in UnitVariants}

\* PortSpec of the unit classes: the ports a unit declares
PortSpec == {"inlet", "outlet"}

\* an endpoint dangles in the graphs that do not declare its unit id; one
\* stream ends in a port that no unit declares
StreamDefinitions ==
    {[from_ |-> <<f, "outlet">>, to |-> <<t, "inlet">>] : f \in UnitIds, t \in UnitIds}
    \cup {[from_ |-> <<"A", "outlet">>, to |-> <<"B", "reheat">>]}

PlantGraphs ==
    [units : SeqUpTo(UnitDefinitions, MaxUnits),
     streams : SeqUpTo(StreamDefinitions, MaxStreams)]

\* RunCase.constraints: no constraint, or the metal temperature limit of the
\* example run case
ConstraintSets == {EmptyDict, [c \in {"METAL.max_T_C"} |-> 600]}

RunCases ==
    [mode : {"simulate", "optimize"},
     objective : {"max_power", "max_revenue"},
     pricing : {None, [power_USD_MWh |-> 55, heat_USD_MWh |-> 25, fuel_USD_MMBtu |-> 8]},
     constraints : ConstraintSets]

\* A unit class is named by where its evaluate comes from:
\*   "SteamTurbineHP"  the class of hbd/units/steam_turbine.py, whose evaluate
\*                     takes (inputs, ambient);
\*   "ContractUnit"    a registered class whose evaluate has the signature of
\*                     the UnitBase protocol, (inputs, params, ambient).
\* The registry's content is what discovery and register_unit left in it.
Registries ==
    {[t \in {"GasTurbine", "SteamTurbineHP", "steam_turbine"} |->
        IF t = "SteamTurbineHP" THEN c ELSE "ContractUnit"] :
           c \in {"SteamTurbineHP", "ContractUnit"}}

\* ----------------------------------------------------------- program data
\* closure_error = 0.1 (percent), in tenths of a percent
ClosureErrorPlaceholder == 1

\* the 0.5 % tolerance, in tenths of a percent
ClosureTolerance == 5

\* defaults "auxiliary" / "aux_load_MW", and the fallback of the lookup
AuxLoadMW == 5

\* "GasTurbine" in unit_type
IsGasTurbineType(unit_type) == unit_type \in {"GasTurbine"}

\* "SteamTurbine" in unit_type
IsSteamTurbineType(unit_type) == unit_type \in {"SteamTurbineHP"}

\* --------------------------------------------------------------- registry
\* UnitRegistry.get_unit_class: the class bound to type_key, or KeyError
GetUnitClassRaises(type_key) == type_key \notin DOMAIN registry

GetUnitClass(type_key) == registry[type_key]

\* ---------------------------------------------------------------- defaults
\* DefaultsManager._get_hardcoded_defaults (no defaults.json is shipped): the
\* entries of the unit categories the pipeline asks for
HardcodedDefaults ==
    [category \in {"steam_turbine", "auxiliary"} |->
        IF category = "steam_turbine"
        THEN [eta_isentropic |-> 880, mech_efficiency |-> 985,
              generator_efficiency |-> 985]
        ELSE [aux_load_MW |-> 5]]

\* dict(items): the mapping of a sequence of <<key, value>> items, a later
\* item replacing an earlier one of the same key
AsDict(items) ==
    [key \in {items[k][1] : k \in DOMAIN items} |->
        LET last == CHOOSE k \in DOMAIN items :
                       /\ items[k][1] = key
                       /\ \A j \in DOMAIN items : items[j][1] = key => j <= k
        IN  items[last][2]]

\* d.copy(); d.update(other)
Updated(d, other) ==
    [key \in DOMAIN d \cup DOMAIN other |->
        IF key \in DOMAIN other THEN other[key] ELSE d[key]]

\* DefaultsManager.get_unit_defaults: self._defaults.get(unit_type, {}).copy()
GetUnitDefaults(table, unit_type) == DictGet(table, unit_type, EmptyDict)

\* merged params in which a default replaces the user's value
MergeWithDefaultsDefaultsFirst(table, unit_type, user_params) ==
    [merged |-> Updated(AsDict(user_params), GetUnitDefaults(table, unit_type)),
     table |-> table,
     user_params |-> user_params]

\* merge_with_defaults that updates the table's own entry instead of a copy
MergeWithDefaultsInPlace(table, unit_type, user_params) ==
    LET merged == Updated(DictGet(table, unit_type, EmptyDict), AsDict(user_params))
    IN  [merged |-> merged,
         table |-> IF unit_type \in DOMAIN table
                   THEN [table EXCEPT ![unit_type] = merged] ELSE table,
         user_params |-> user_params]

\* DefaultsManager.merge_with_defaults: the mapping it returns, and the table
\* and the caller's params as the call leaves them.  The defaults are copied
\* before they are updated and user_params is only read.
MergeWithDefaults(table, unit_type, user_params) ==
    [merged |-> Updated(GetUnitDefaults(table, unit_type), AsDict(user_params)),
     table |-> table,
     user_params |-> user_params]

\* ------------------------------------------------------------ unit classes
\* the efficiency fields __post_init__ checks, in the order it checks them
EfficiencyFields == <<"eta_isentropic", "mech_efficiency", "generator_efficiency">>

\* the fields of params outside [0, 1], as positions of EfficiencyFields
ViolatedFields(params) ==
    {k \in DOMAIN EfficiencyFields :
        /\ EfficiencyFields[k] \in DOMAIN params
        /\ params[EfficiencyFields[k]] \notin 0..1000}

\* unit_class.ParamModel(**params): the exception it raises, or None.  The
\* registered classes share the parameter schema of SteamTurbineParams.
ParamModelError(params) ==
    IF ViolatedFields(params) # {}
    THEN [exc |-> "ValueError", text |-> "{} must lie in [0, 1]",
          arg |-> EfficiencyFields[CHOOSE k \in ViolatedFields(params) :
                                     \A j \in ViolatedFields(params) : k <= j]]
    ELSE None

\* A class whose evaluate follows the UnitBase protocol is a black box that
\* maps inputs to {port_name: port state}.  The classes considered hand back
\* one outlet state, which carries the unit's shaft power the way the steam
\* turbine's does (outputs["outlet"]["shaft_power_MW"]): a hot unit that
\* produces power, or a cooler one that produces none.
ContractOutputs ==
    {[p \in {"outlet"} |->
         [T_C |-> 650, m_dot_kg_s |-> 2, medium |-> "steam", shaft_power_MW |-> 7]],
     [p \in {"outlet"} |->
         [T_C |-> 540, m_dot_kg_s |-> 2, medium |-> "steam", shaft_power_MW |-> 0]]}

\* evaluate(inputs, params, ambient) of the registered contract class
ContractEvaluate(inputs) == contract_outputs

\* unit_instance.evaluate(inputs, unit_instance.params, ambient) binds three
\* positional arguments; SteamTurbineBase.evaluate(self, inputs, ambient=None)
\* takes two, so the call raises TypeError before the body runs.
EvaluateCallRaises(unit_class) == unit_class = "SteamTurbineHP"

\* the TypeError of that call
EvaluateCallError ==
    [exc |-> "TypeError",
     text |-> "{}.evaluate() takes from 2 to 3 positional arguments but 4 were given",
     arg |-> "SteamTurbineBase"]

\* ---------------------------------------------------------- the pipeline
\* the units PlantEngine._compile_graph finds unregistered, in order
UnknownTypeUnits(graph) ==
    {k \in DOMAIN graph.units : GetUnitClassRaises(graph.units[k].type)}

DeclaredIds(graph) == {graph.units[k].id : k \in DOMAIN graph.units}

\* stream k has an endpoint whose unit is not declared
Dangling(graph, k) ==
    \/ UnitOf(graph.streams[k].from_) \notin DeclaredIds(graph)
    \/ UnitOf(graph.streams[k].to) \notin DeclaredIds(graph)

DanglingStreams(graph) == {k \in DOMAIN graph.streams : Dangling(graph, k)}

Min(S) == CHOOSE m \in S : \A n \in S : m <= n

\* _compile_graph with the destination of a stream looked up before its source
CompileErrorDestinationFirst(graph) ==
    IF UnknownTypeUnits(graph) # {}
    THEN LET unit == graph.units[Min(UnknownTypeUnits(graph))]
         IN  [exc |-> "ValueError", text |-> "Unknown unit type: {}",
              arg |-> unit.type]
    ELSE IF DanglingStreams(graph) # {}
    THEN LET stream == graph.streams[Min(DanglingStreams(graph))]
         IN  IF UnitOf(stream.to) \notin DeclaredIds(graph)
             THEN [exc |-> "ValueError", text |-> "Stream destination unit '{}' not found",
                   arg |-> UnitOf(stream.to)]
             ELSE [exc |-> "ValueError", text |-> "Stream source unit '{}' not found",
                   arg |-> UnitOf(stream.from_)]
    ELSE None

\* _compile_graph with the streams validated before the units
CompileErrorStreamsFirst(graph) ==
    IF DanglingStreams(graph) # {}
    THEN LET stream == graph.streams[Min(DanglingStreams(graph))]
         IN  IF UnitOf(stream.from_) \notin DeclaredIds(graph)
             THEN [exc |-> "ValueError", text |-> "Stream source unit '{}' not found",
                   arg |-> UnitOf(stream.from_)]
             ELSE [exc |-> "ValueError", text |-> "Stream destination unit '{}' not found",
                   arg |-> UnitOf(stream.to)]
    ELSE IF UnknownTypeUnits(graph) # {}
    THEN LET unit == graph.units[Min(UnknownTypeUnits(graph))]
         IN  [exc |-> "ValueError", text |-> "Unknown unit type: {}",
              arg |-> unit.type]
    ELSE None

\* The exception _compile_graph raises, or None when the graph passes; text is
\* the message with {} where arg is interpolated.
CompileError(graph) ==
    IF UnknownTypeUnits(graph) # {}
    THEN LET unit == graph.units[Min(UnknownTypeUnits(graph))]
         IN  [exc |-> "ValueError", text |-> "Unknown unit type: {}",
              arg |-> unit.type]
    ELSE IF DanglingStreams(graph) # {}
    THEN LET stream == graph.streams[Min(DanglingStreams(graph))]
         IN  IF UnitOf(stream.from_) \notin DeclaredIds(graph)
             THEN [exc |-> "ValueError", text |-> "Stream source unit '{}' not found",
                   arg |-> UnitOf(stream.from_)]
             ELSE [exc |-> "ValueError", text |-> "Stream destination unit '{}' not found",
                   arg |-> UnitOf(stream.to)]
    ELSE None

\* One turn of the loop of _initialize, for unit k.  heap holds the objects
\* the turn can reach: the defaults table, the caller's graph and
\* self.unit_states.
InitializeUnit(heap, k) ==
    LET unit == heap.graph.units[k]
        merge == MergeWithDefaults(heap.table, unit.type, unit.params)
        state == [type |-> unit.type, params |-> merge.merged,
                  ports |-> EmptyDict, status |-> "initialized"]
    IN  [table |-> merge.table,
         graph |-> [heap.graph EXCEPT !.units[k].params = merge.user_params],
         states |-> Updated(heap.states, [u \in {unit.id} |-> state])]

RECURSIVE InitializeUnits(_, _)
InitializeUnits(heap, k) ==
    IF k > Len(heap.graph.units) THEN heap
    ELSE InitializeUnits(InitializeUnit(heap, k), k + 1)

\* the objects after _initialize: self.unit_states starts from {}
Initialized(table, graph) ==
    InitializeUnits([table |-> table, graph |-> graph, states |-> EmptyDict], 1)

\* self.unit_states after _initialize
InitialUnitStates(graph) == Initialized(defaults, graph).states

\* the loop of _block_solvers taking the units last to first
BlockSolversOrderReversed(units) ==
    [k \in DOMAIN units |-> units[Len(units) + 1 - k]]

\* for unit in self.plant_graph.units: the units in the order the loop of
\* _block_solvers takes them
BlockSolversOrder(units) == units

\* _optimize that throws the unit states away
AfterOptimizeCleared(states) == EmptyDict

\* self.unit_states after _optimize, whose body is pass
AfterOptimize(states) == states

\* next(u for u in self.plant_graph.units if u.id == unit_id)
UnitDef(graph, unit_id) ==
    graph.units[Min({k \in DOMAIN graph.units : graph.units[k].id = unit_id})]

\* the streams that feed a port of unit_id from a unit that has a state
FeedingStreams(graph, states, unit_id) ==
    {k \in DOMAIN graph.streams :
        /\ FeedsUnit(graph.streams[k].to, unit_id)
        /\ UnitOf(graph.streams[k].from_) \in DOMAIN states}

\* the inputs dict _evaluate_unit builds: a later stream into the same port
\* overwrites an earlier one
PrepareInputs(graph, states, unit_id) ==
    LET feeding == FeedingStreams(graph, states, unit_id)
        ports == {PortOf(graph.streams[k].to) : k \in feeding}
    IN  [p \in ports |->
            LET last == CHOOSE k \in feeding :
                           /\ PortOf(graph.streams[k].to) = p
                           /\ \A j \in feeding :
                                 PortOf(graph.streams[j].to) = p => j <= k
                from == graph.streams[last].from_
            IN  DictGet(states[UnitOf(from)].ports, PortOf(from), EmptyDict)]

RECURSIVE SumOver(_, _)
SumOver(f, S) ==
    IF S = {} THEN 0
    ELSE LET x == CHOOSE y \in S : TRUE
         IN  f[x] + SumOver(f, S \ {x})

\* the sum of ports.get("shaft_power_MW", 0.0) over the given units
CategoryPower(states, units) ==
    LET read == [u \in DOMAIN states |->
                    DictGet(states[u].ports, "shaft_power_MW", 0)]
    IN  SumOver(read, units)

\* the units of the if branch and of the elif branch of _plant_summary
GasTurbineUnits(states) ==
    {u \in DOMAIN states : IsGasTurbineType(states[u].type)}

SteamTurbineUnits(states) ==
    {u \in DOMAIN states :
        ~IsGasTurbineType(states[u].type) /\ IsSteamTurbineType(states[u].type)}

\* PlantEngine._plant_summary
PlantSummary(states) ==
    LET gt_power == CategoryPower(states, GasTurbineUnits(states))
        st_power == CategoryPower(states, SteamTurbineUnits(states))
        net_power == gt_power + st_power - AuxLoadMW
    IN  [GT_power_MW |-> gt_power,
         ST_power_MW |-> st_power,
         AUX_load_MW |-> AuxLoadMW,
         NET_power_MW |-> net_power,
         NET_eff_LHV_pct |-> IF net_power > 0 THEN 50 ELSE 0,
         heat_out_MWth |-> 0,
         revenue_USD_h |-> 0]

\* the tolerance test with the comparison turned around
ConvergedInverted(closure_error) == closure_error >= ClosureTolerance

\* closure_error <= 0.5
Converged(closure_error) == closure_error <= ClosureTolerance

\* PlantEngine._recycle_iteration
RecycleIterationResult ==
    [closure_error_pct |-> ClosureErrorPlaceholder,
     converged |-> Converged(ClosureErrorPlaceholder),
     iterations |-> 1]

\* sep.join(strings)
RECURSIVE Join(_, _)
Join(strings, sep) ==
    IF strings = <<>> THEN ""
    ELSE IF Len(strings) = 1 THEN strings[1]
    ELSE strings[1] \o sep \o Join(Tail(strings), sep)

\* the parameter keys of the model in the order sorted() gives them
SortedParamKeys == <<"eta_isentropic", "generator_efficiency", "mech_efficiency">>

\* the keys of a params dict as json.dumps walks them: sorted with
\* sort_keys=True, else in insertion order
DumpOrder(params, sort_keys) ==
    IF sort_keys
    THEN LET Present(key) == \E k \in DOMAIN params : params[k][1] = key
         IN  SelectSeq(SortedParamKeys, Present)
    ELSE [k \in DOMAIN params |-> params[k][1]]

\* json.dumps of a unit's params
DumpParams(params, sort_keys) ==
    LET keys == DumpOrder(params, sort_keys)
        item == [k \in DOMAIN keys |->
                    "\"" \o keys[k] \o "\": " \o ToString(AsDict(params)[keys[k]])]
    IN  "{" \o Join(item, ", ") \o "}"

\* json.dumps of one unit of plant_graph.dict(); the field names id, params,
\* type are in sorted order as declared apart from params and type
DumpUnit(unit, sort_keys) ==
    IF sort_keys
    THEN "{\"id\": \"" \o unit.id \o "\", \"params\": "
             \o DumpParams(unit.params, sort_keys)
             \o ", \"type\": \"" \o unit.type \o "\"}"
    ELSE "{\"id\": \"" \o unit.id \o "\", \"type\": \"" \o unit.type
             \o "\", \"params\": " \o DumpParams(unit.params, sort_keys) \o "}"

\* json.dumps of one stream of plant_graph.dict()
DumpStream(stream) ==
    "{\"from_\": \"" \o UnitOf(stream.from_) \o "." \o PortOf(stream.from_)
        \o "\", \"to\": \"" \o UnitOf(stream.to) \o "." \o PortOf(stream.to) \o "\"}"

\* json.dumps(self.plant_graph.dict(), sort_keys=...); meta and ambient keep
\* their default values in every graph considered and are left out
JsonDumps(graph, sort_keys) ==
    LET units == [k \in DOMAIN graph.units |-> DumpUnit(graph.units[k], sort_keys)]
        streams == [k \in DOMAIN graph.streams |-> DumpStream(graph.streams[k])]
    IN  IF sort_keys
        THEN "{\"streams\": [" \o Join(streams, ", ") \o "], \"units\": ["
                 \o Join(units, ", ") \o "]}"
        ELSE "{\"units\": [" \o Join(units, ", ") \o "], \"streams\": ["
                 \o Join(streams, ", ") \o "]}"

\* the hash of the serialization in insertion order
CalculatePlantHashUnsorted(graph) == JsonDumps(graph, FALSE)

\* PlantEngine._calculate_plant_hash.  A SHA-1 digest is taken to be
\* different for different texts: the digest is named by the text it digests.
CalculatePlantHash(graph) == JsonDumps(graph, TRUE)

\* Result(...) of _create_result, from the objects it reads and the reading
\* of the clock
ResultOf(states, violation_list, graph, plant_summary, balance, now) ==
    [summary |-> plant_summary,
     violations |-> violation_list,
     unit_states |-> states,
     mass_energy_balance |-> balance,
     district_heating |-> None,
     meta |-> [timestamp_utc |-> now,
               solver_commit |-> "placeholder",
               plant_hash |-> CalculatePlantHash(graph)]]

\* PlantEngine._create_result
CreateResult(plant_summary, balance, now) ==
    ResultOf(unit_states, violations, plant_graph, plant_summary, balance, now)

\* ------------------------------------------------------------------ actions
\* one simulate call on one engine: the model of several calls is not in use
NoCalls == engines = EmptyDict /\ calls = EmptyDict

\* no request was served and the launcher is not running
NoService ==
    /\ disk = None
    /\ lru_cache = None
    /\ responses = None
    /\ stop_event = FALSE
    /\ process = EmptyDict
    /\ tasks = EmptyDict

\* the registry was populated before the call and is only read by it
RegistrySettled ==
    /\ discovered = TRUE
    /\ threads = EmptyDict
    /\ entry_points = <<>>
    /\ reglog = <<>>

Init ==
    /\ pc = "Idle"
    /\ plant_graph = None
    /\ run_case = None
    /\ unit_states = EmptyDict
    /\ violations = <<>>
    /\ registry \in Registries
    /\ contract_outputs \in ContractOutputs
    /\ idx = 0
    /\ evalLog = <<>>
    /\ stages = <<>>
    /\ convergence_info = None
    /\ summary = None
    /\ result = None
    /\ error = None
    /\ defaults = HardcodedDefaults
    /\ args = None
    /\ clock = 0
    /\ NoCalls
    /\ RegistrySettled
    /\ NoService

Enter(stage) ==
    /\ pc' = stage
    /\ stages' = Append(stages, stage)

Raise(exception) ==
    /\ Enter("Failed")
    /\ error' = exception

\* simulate(plant_graph, run_case), up to the call of _compile_graph
Simulate ==
    /\ pc = "Idle"
    /\ \E graph \in PlantGraphs, case \in RunCases :
          /\ plant_graph' = graph
          /\ run_case' = case
          /\ args' = [plant_graph |-> graph, run_case |-> case]
    /\ Enter("Compile")
    /\ UNCHANGED <<unit_states, violations, registry, contract_outputs, idx, evalLog,
                   convergence_info, summary, result, error, defaults, clock,
                   callsVars, registryVars, serviceVars>>

\* Step 1: _compile_graph
CompileGraph ==
    /\ pc = "Compile"
    /\ IF CompileError(plant_graph) # None
       THEN Raise(CompileError(plant_graph))
       ELSE Enter("Initialize") /\ UNCHANGED error
    /\ UNCHANGED <<plant_graph, run_case, unit_states, violations, registry, contract_outputs,
                   idx, evalLog, convergence_info, summary, result, defaults,
                   args, clock, callsVars, registryVars, serviceVars>>

\* Step 2: _initialize
Initialize ==
    /\ pc = "Initialize"
    /\ unit_states' = InitialUnitStates(plant_graph)
    /\ defaults' = Initialized(defaults, plant_graph).table
    /\ plant_graph' = Initialized(defaults, plant_graph).graph
    /\ idx' = 1
    /\ Enter("ForwardPass")
    /\ UNCHANGED <<run_case, violations, registry, contract_outputs, evalLog,
                   convergence_info, summary, result, error, args, clock,
                   callsVars, registryVars, serviceVars>>

\* Step 3: one turn of the loop of _block_solvers, _evaluate_unit(unit.id)
EvaluateUnit ==
    /\ pc = "ForwardPass"
    /\ idx <= Len(plant_graph.units)
    /\ LET unit_id == BlockSolversOrder(plant_graph.units)[idx].id
           unit_def == UnitDef(plant_graph, unit_id)
           unit_class == GetUnitClass(unit_def.type)
           inputs == PrepareInputs(plant_graph, unit_states, unit_id)
       IN  IF ParamModelError(unit_states[unit_id].params) # None
           THEN /\ Raise(ParamModelError(unit_states[unit_id].params))
                /\ UNCHANGED <<unit_states, idx, evalLog>>
           ELSE /\ evalLog' = Append(evalLog, unit_id)
                /\ IF EvaluateCallRaises(unit_class)
                   THEN /\ Raise(EvaluateCallError)
                        /\ UNCHANGED <<unit_states, idx>>
                   ELSE /\ unit_states' =
                              [unit_states EXCEPT
                                  ![unit_id].ports = ContractEvaluate(inputs),
                                  ![unit_id].status = "evaluated"]
                        /\ idx' = idx + 1
                        /\ UNCHANGED <<pc, stages, error>>
    /\ UNCHANGED <<plant_graph, run_case, violations, registry, contract_outputs,
                   convergence_info, summary, result, defaults, args, clock,
                   callsVars, registryVars, serviceVars>>

\* Step 3 ends: the loop of _block_solvers is exhausted
ForwardPassDone ==
    /\ pc = "ForwardPass"
    /\ idx > Len(plant_graph.units)
    /\ Enter("RecycleConverging")
    /\ UNCHANGED <<plant_graph, run_case, unit_states, violations, registry, contract_outputs,
                   idx, evalLog, convergence_info, summary, result, error,
                   defaults, args, clock, callsVars, registryVars, serviceVars>>

\* Step 4: _recycle_iteration
RecycleIteration ==
    /\ pc = "RecycleConverging"
    /\ convergence_info' = RecycleIterationResult
    /\ Enter("Summarized")
    /\ UNCHANGED <<plant_graph, run_case, unit_states, violations, registry,
                   contract_outputs, idx, evalLog, summary, result, error,
                   defaults, args, clock, callsVars, registryVars, serviceVars>>

\* step 6 entered whatever the mode
OptimizeRequestedAlways(case) == TRUE

\* step 6 entered for the revenue objective as well
OptimizeRequestedForRevenue(case) ==
    case.mode = "optimize" \/ case.objective = "max_revenue"

\* run_case.mode == "optimize"
OptimizeRequested(case) == case.mode = "optimize"

\* Step 5: _plant_summary; in simulate mode _create_result follows at once
Summarize ==
    /\ pc = "Summarized"
    /\ summary' = PlantSummary(unit_states)
    /\ IF OptimizeRequested(run_case)
       THEN /\ Enter("Optimizing")
            /\ UNCHANGED <<result, clock>>
       ELSE /\ \E now \in clock..MaxClock :
                  /\ clock' = now
                  /\ result' = CreateResult(summary', convergence_info, now)
            /\ Enter("Done")
    /\ UNCHANGED <<plant_graph, run_case, unit_states, violations, registry,
                   contract_outputs, idx, evalLog, convergence_info, error,
                   defaults, args, callsVars, registryVars, serviceVars>>

\* Step 6: _optimize, a placeholder that does nothing, then _create_result
Optimize ==
    /\ pc = "Optimizing"
    /\ unit_states' = AfterOptimize(unit_states)
    /\ \E now \in clock..MaxClock :
          /\ clock' = now
          /\ result' = ResultOf(unit_states', violations, plant_graph, summary,
                                convergence_info, now)
    /\ Enter("Done")
    /\ UNCHANGED <<plant_graph, run_case, violations, registry,
                   contract_outputs, idx, evalLog, convergence_info, summary,
                   error, defaults, args, callsVars, registryVars, serviceVars>>

Next ==
    \/ Simulate
    \/ CompileGraph
    \/ Initialize
    \/ EvaluateUnit
    \/ ForwardPassDone
    \/ RecycleIteration
    \/ Summarize
    \/ Optimize

Spec == Init /\ [][Next]_vars

\* ----------------------------------------------- several simulate calls
\* Two callers, each making one simulate call.  The calls may follow one
\* another or overlap (the handlers of the API run in a thread pool); a step
\* of a call is one pipeline step.  The fields of a PlantEngine instance are
\* shared by the calls made on it; the locals of simulate are each call's own.
CallIds == {"c1", "c2"}

\* the module-level plant_engine and an instance a caller constructs
EngineIds == {"plant_engine", "engine"}

\* the first caller uses plant_engine, the second uses it too or has its own
EnginesOf(c) == IF c = "c1" THEN {"plant_engine"} ELSE EngineIds

\* params with two keys, written in either order
TwoParams == << <<"eta_isentropic", 950>>, <<"mech_efficiency", 990>> >>

TwoParamsReordered == << <<"mech_efficiency", 990>>, <<"eta_isentropic", 950>> >>

CallGraphs ==
    {[units |-> <<>>, streams |-> <<>>]} \cup
    {[units |-> <<[id |-> "A", type |-> "GasTurbine", params |-> p]>>,
      streams |-> <<>>] : p \in {NoParams, TwoParams, TwoParamsReordered}}

CallCases ==
    {case \in RunCases :
        /\ case.constraints = EmptyDict
        /\ (case.pricing = None) <=> (case.objective = "max_power")
        /\ case.mode = "optimize" => case.objective = "max_power"}

\* PlantEngine.__init__
NewEngine ==
    [plant_graph |-> None, run_case |-> None, unit_states |-> EmptyDict,
     violations |-> <<>>]

\* a caller that has not called yet
NotCalled ==
    [pc |-> "Idle", engine |-> None, plant_graph |-> None, run_case |-> None,
     units |-> <<>>, idx |-> 0, evalLog |-> <<>>, stages |-> <<>>,
     convergence_info |-> None, summary |-> None, result |-> None,
     error |-> None, overlapped |-> FALSE]

\* the one-call model is not in use
NoSingleCall ==
    /\ pc = "Idle"
    /\ plant_graph = None
    /\ run_case = None
    /\ unit_states = EmptyDict
    /\ violations = <<>>
    /\ idx = 0
    /\ evalLog = <<>>
    /\ stages = <<>>
    /\ convergence_info = None
    /\ summary = None
    /\ result = None
    /\ error = None
    /\ args = None

singleVars ==
    <<pc, plant_graph, run_case, unit_states, violations, idx, evalLog, stages,
      convergence_info, summary, result, error, args>>

InitCalls ==
    /\ NoSingleCall
    /\ RegistrySettled
    /\ NoService
    /\ registry \in Registries
    /\ contract_outputs \in ContractOutputs
    /\ defaults = HardcodedDefaults
    /\ clock = 0
    /\ engines = [e \in EngineIds |-> NewEngine]
    /\ calls = [c \in CallIds |-> NotCalled]

InProgress(call) == call.pc \notin {"Idle", "Done", "Failed"}

\* the call record after it entered a stage / after an exception left simulate
Entered(call, stage) ==
    [call EXCEPT !.pc = stage, !.stages = Append(@, stage)]

Raised(call, exception) ==
    [Entered(call, "Failed") EXCEPT !.error = exception]

\* simulate(plant_graph, run_case) on engine e, up to _compile_graph
CallSimulate(c) ==
    /\ calls[c].pc = "Idle"
    /\ \E e \in EnginesOf(c), graph \in CallGraphs, case \in CallCases :
          LET others == {d \in CallIds \ {c} :
                            InProgress(calls[d]) /\ calls[d].engine = e}
          IN  /\ engines' = [engines EXCEPT ![e].plant_graph = graph,
                                            ![e].run_case = case]
              /\ calls' =
                    [d \in CallIds |->
                        IF d = c
                        THEN Entered([calls[c] EXCEPT !.engine = e,
                                                     !.plant_graph = graph,
                                                     !.run_case = case,
                                                     !.overlapped = others # {}],
                                     "Compile")
                        ELSE IF d \in others
                        THEN [calls[d] EXCEPT !.overlapped = TRUE]
                        ELSE calls[d]]
    /\ UNCHANGED <<singleVars, registry, contract_outputs, defaults, clock,
                   registryVars, serviceVars>>

\* Step 1: _compile_graph reads self.plant_graph
CallCompileGraph(c) ==
    /\ calls[c].pc = "Compile"
    /\ LET graph == engines[calls[c].engine].plant_graph
       IN  calls' = [calls EXCEPT ![c] =
                        IF CompileError(graph) # None
                        THEN Raised(@, CompileError(graph))
                        ELSE Entered(@, "Initialize")]
    /\ UNCHANGED <<singleVars, registry, contract_outputs, defaults, clock,
                   engines, registryVars, serviceVars>>

\* Step 2: _initialize rebinds self.unit_states
CallInitialize(c) ==
    /\ calls[c].pc = "Initialize"
    /\ LET e == calls[c].engine
           after == Initialized(defaults, engines[e].plant_graph)
       IN  /\ engines' = [engines EXCEPT ![e].unit_states = after.states,
                                         ![e].plant_graph = after.graph]
           /\ defaults' = after.table
           /\ calls' = [calls EXCEPT ![c] = Entered([@ EXCEPT !.idx = 0], "ForwardPass")]
    /\ UNCHANGED <<singleVars, registry, contract_outputs, clock, registryVars, serviceVars>>

\* Step 3 begins: the for loop of _block_solvers takes the list that
\* self.plant_graph.units is at that moment
CallBlockSolvers(c) ==
    /\ calls[c].pc = "ForwardPass"
    /\ calls[c].idx = 0
    /\ calls' = [calls EXCEPT
                    ![c].units = BlockSolversOrder(engines[calls[c].engine].plant_graph.units),
                    ![c].idx = 1]
    /\ UNCHANGED <<singleVars, registry, contract_outputs, defaults, clock,
                   engines, registryVars, serviceVars>>

\* next(u for u in self.plant_graph.units if u.id == unit_id) finds no unit
StopIterationError == [exc |-> "StopIteration", text |-> "", arg |-> ""]

\* self.unit_states[unit_id] / unit_registry.get_unit_class: key not found
KeyErrorOf(key) == [exc |-> "KeyError", text |-> "{}", arg |-> key]

\* The exception one _evaluate_unit(unit_id) raises before it calls
\* evaluate, or None, reading the engine's fields as they are now
EvaluatePreludeError(engine, unit_id) ==
    IF unit_id \notin DeclaredIds(engine.plant_graph) THEN StopIterationError
    ELSE IF unit_id \notin DOMAIN engine.unit_states THEN KeyErrorOf(unit_id)
    ELSE IF GetUnitClassRaises(UnitDef(engine.plant_graph, unit_id).type)
    THEN KeyErrorOf(UnitDef(engine.plant_graph, unit_id).type)
    ELSE ParamModelError(engine.unit_states[unit_id].params)

\* Step 3: one turn of the loop of _block_solvers, _evaluate_unit(unit.id)
CallEvaluateUnit(c) ==
    /\ calls[c].pc = "ForwardPass"
    /\ calls[c].idx >= 1
    /\ calls[c].idx <= Len(calls[c].units)
    /\ LET e == calls[c].engine
           unit_id == calls[c].units[calls[c].idx].id
           prelude == EvaluatePreludeError(engines[e], unit_id)
       IN  IF prelude # None
           THEN /\ calls' = [calls EXCEPT ![c] = Raised(@, prelude)]
                /\ UNCHANGED engines
           ELSE LET unit_def == UnitDef(engines[e].plant_graph, unit_id)
                    unit_class == GetUnitClass(unit_def.type)
                    inputs == PrepareInputs(engines[e].plant_graph,
                                            engines[e].unit_states, unit_id)
                    invoked == [calls[c] EXCEPT !.evalLog = Append(@, unit_id)]
                IN  IF EvaluateCallRaises(unit_class)
                    THEN /\ calls' = [calls EXCEPT ![c] =
                                         Raised(invoked, EvaluateCallError)]
                         /\ UNCHANGED engines
                    ELSE /\ engines' =
                               [engines EXCEPT
                                   ![e].unit_states[unit_id].ports = ContractEvaluate(inputs),
                                   ![e].unit_states[unit_id].status = "evaluated"]
                         /\ calls' = [calls EXCEPT ![c] =
                                         [invoked EXCEPT !.idx = @ + 1]]
    /\ UNCHANGED <<singleVars, registry, contract_outputs, defaults, clock,
                   registryVars, serviceVars>>

\* Step 3 ends
CallForwardPassDone(c) ==
    /\ calls[c].pc = "ForwardPass"
    /\ calls[c].idx > Len(calls[c].units)
    /\ calls' = [calls EXCEPT ![c] = Entered(@, "RecycleConverging")]
    /\ UNCHANGED <<singleVars, registry, contract_outputs, defaults, clock,
                   engines, registryVars, serviceVars>>

\* Step 4: _recycle_iteration
CallRecycleIteration(c) ==
    /\ calls[c].pc = "RecycleConverging"
    /\ calls' = [calls EXCEPT ![c] =
                    Entered([@ EXCEPT !.convergence_info = RecycleIterationResult],
                            "Summarized")]
    /\ UNCHANGED <<singleVars, registry, contract_outputs, defaults, clock,
                   engines, registryVars, serviceVars>>

\* _create_result on the engine's fields as they are now
CallCreateResult(call, now) ==
    LET engine == engines[call.engine]
    IN  ResultOf(engine.unit_states, engine.violations, engine.plant_graph,
                 call.summary, call.convergence_info, now)

\* Step 5: _plant_summary; in simulate mode _create_result follows at once.
\* The mode is read from the run_case argument, not from self.run_case.
CallSummarize(c) ==
    /\ calls[c].pc = "Summarized"
    /\ LET summarized ==
               [calls[c] EXCEPT
                   !.summary = PlantSummary(engines[calls[c].engine].unit_states)]
       IN  IF OptimizeRequested(calls[c].run_case)
           THEN /\ calls' = [calls EXCEPT ![c] = Entered(summarized, "Optimizing")]
                /\ UNCHANGED clock
           ELSE \E now \in clock..MaxClock :
                   /\ clock' = now
                   /\ calls' = [calls EXCEPT ![c] =
                                   Entered([summarized EXCEPT
                                              !.result = CallCreateResult(summarized, now)],
                                           "Done")]
    /\ UNCHANGED <<singleVars, registry, contract_outputs, defaults, engines,
                   registryVars, serviceVars>>

\* Step 6: _optimize does nothing, then _create_result
CallOptimize(c) ==
    /\ calls[c].pc = "Optimizing"
    /\ LET e == calls[c].engine
           optimized == AfterOptimize(engines[e].unit_states)
       IN  /\ engines' = [engines EXCEPT ![e].unit_states = optimized]
           /\ \E now \in clock..MaxClock :
                 /\ clock' = now
                 /\ calls' = [calls EXCEPT ![c] =
                       Entered([@ EXCEPT !.result =
                                   ResultOf(optimized, engines[e].violations,
                                            engines[e].plant_graph, calls[c].summary,
                                            calls[c].convergence_info, now)],
                               "Done")]
    /\ UNCHANGED <<singleVars, registry, contract_outputs, defaults, registryVars, serviceVars>>

NextCalls ==
    \E c \in CallIds :
        \/ CallSimulate(c)
        \/ CallCompileGraph(c)
        \/ CallInitialize(c)
        \/ CallBlockSolvers(c)
        \/ CallEvaluateUnit(c)
        \/ CallForwardPassDone(c)
        \/ CallRecycleIteration(c)
        \/ CallSummarize(c)
        \/ CallOptimize(c)

SpecCalls == InitCalls /\ [][NextCalls]_vars

\* ------------------------------------------------ the registry at work
\* Threads call register_unit, discover_units, get_unit_class and
\* list_unit_types on the module-level unit_registry.  The registry has no
\* lock: a step is one read or one write of _units or _discovered.
\* registry is UnitRegistry._units, type key -> name of the bound class.

\* unit classes a caller or an entry point can hand to register_unit
UnitClasses ==
    {[name |-> "ContractUnit", type_key |-> "GasTurbine"],
     [name |-> "OtherUnit", type_key |-> "GasTurbine"],
     [name |-> "SteamTurbineHP", type_key |-> "SteamTurbineHP"]}

\* the unit classes among dir(hbd.units.steam_turbine), in its order
PackageClasses ==
    <<[name |-> "SteamTurbineBase", type_key |-> "SteamTurbine"],
      [name |-> "SteamTurbineHP", type_key |-> "SteamTurbineHP"],
      [name |-> "SteamTurbineIP", type_key |-> "SteamTurbineIP"],
      [name |-> "SteamTurbineIPLP", type_key |-> "SteamTurbineIPLP"],
      [name |-> "SteamTurbineLP", type_key |-> "SteamTurbineLP"]>>

LookupKeys == {"GasTurbine", "SteamTurbineIP"}

\* register_unit stores whatever the key is bound to
RegisterUnitRaisesNever(units, unit_class) == FALSE

\* register_unit: type_key in self._units, the ValueError branch
RegisterUnitRaises(units, unit_class) == unit_class.type_key \in DOMAIN units

\* self._units[type_key] = unit_class
Registered(units, unit_class) ==
    Updated(units, [k \in {unit_class.type_key} |-> unit_class.name])

\* issubclass(attr, UnitBase) raises TypeError for every class: UnitBase is a
\* Protocol that is not runtime checkable (and has non-method members)
IssubclassRaises(attr) == TRUE

\* The loop of _discover_from_package over the attributes of one module, from
\* attribute k on: any exception, of issubclass or of register_unit, is
\* caught outside the loop and abandons the rest of the module.
RECURSIVE DiscoverFromModule(_, _, _)
DiscoverFromModule(units, attrs, k) ==
    IF k > Len(attrs) THEN units
    ELSE IF IssubclassRaises(attrs[k]) THEN units
    ELSE IF RegisterUnitRaises(units, attrs[k]) THEN units
    ELSE DiscoverFromModule(Registered(units, attrs[k]), attrs, k + 1)

\* self._units after _discover_from_package
DiscoverFromPackage(units) == DiscoverFromModule(units, PackageClasses, 1)

\* a thread between two operations
BetweenOps ==
    [op |-> "none", pc |-> "idle", arg |-> None, i |-> 0, answer |-> None,
     after |-> FALSE, ops |-> 0]

RegistryLogEmpty == [runs |-> 0]

\* the state before any thread touched the registry
InitRegistryOf(thread_ids) ==
    /\ NoSingleCall
    /\ NoCalls
    /\ NoService
    /\ contract_outputs \in ContractOutputs
    /\ defaults = HardcodedDefaults
    /\ clock = 0
    /\ registry = EmptyDict
    /\ discovered = FALSE
    /\ entry_points \in SeqUpTo(UnitClasses, MaxEntryPoints)
    /\ threads = [t \in thread_ids |-> BetweenOps]
    /\ reglog = RegistryLogEmpty

\* what no step of the registry touches
registryFrame ==
    <<singleVars, callsVars, contract_outputs, defaults, clock, entry_points,
      serviceVars>>

\* the operations a thread may still call
MayCall(t) ==
    /\ threads[t].pc = "idle"
    /\ threads[t].ops < (IF Cardinality(DOMAIN threads) = 1 THEN MaxOpsAlone ELSE MaxOps)

\* a thread calls an operation; after records whether discovery had
\* completed when the call began
Called(thread, op, pc_, arg) ==
    [thread EXCEPT !.op = op, !.pc = pc_, !.arg = arg, !.i = 0,
                   !.answer = None, !.after = discovered, !.ops = @ + 1]

RegisterUnitCall(t) ==
    /\ MayCall(t)
    /\ \E unit_class \in UnitClasses :
          threads' = [threads EXCEPT ![t] = Called(@, "register_unit", "register", unit_class)]
    /\ UNCHANGED <<registry, discovered, reglog, registryFrame>>

DiscoverUnitsCall(t) ==
    /\ MayCall(t)
    /\ threads' = [threads EXCEPT ![t] = Called(@, "discover_units", "guard", None)]
    /\ UNCHANGED <<registry, discovered, reglog, registryFrame>>

GetUnitClassCall(t) ==
    /\ MayCall(t)
    /\ \E type_key \in LookupKeys :
          threads' = [threads EXCEPT ![t] = Called(@, "get_unit_class", "check", type_key)]
    /\ UNCHANGED <<registry, discovered, reglog, registryFrame>>

ListUnitTypesCall(t) ==
    /\ MayCall(t)
    /\ threads' = [threads EXCEPT ![t] = Called(@, "list_unit_types", "check", None)]
    /\ UNCHANGED <<registry, discovered, reglog, registryFrame>>

\* where a thread goes on when discover_units returns
AfterDiscovery(thread) ==
    IF thread.op = "discover_units"
    THEN [thread EXCEPT !.pc = "idle"]
    ELSE [thread EXCEPT !.pc = "answer"]

\* discover_units begins its body unless the flag is set
DiscoveryGuardNever(flag) == FALSE

\* discover_units: if self._discovered: return
DiscoveryGuard(flag) == flag

\* register_unit, the membership test: raise, or go on to the store
RegisterCheck(t) ==
    /\ threads[t].pc = "register"
    /\ threads' = [threads EXCEPT ![t] =
          IF RegisterUnitRaises(registry, @.arg)
          THEN [@ EXCEPT !.pc = "idle",
                         !.answer = [error |-> "ValueError", text |-> "is already registered",
                                     arg |-> threads[t].arg.type_key]]
          ELSE [@ EXCEPT !.pc = "store"]]
    /\ UNCHANGED <<registry, discovered, reglog, registryFrame>>

\* register_unit, the store
RegisterStore(t) ==
    /\ threads[t].pc = "store"
    /\ registry' = Registered(registry, threads[t].arg)
    /\ threads' = [threads EXCEPT ![t].pc = "idle"]
    /\ UNCHANGED <<discovered, reglog, registryFrame>>

\* get_unit_class, list_unit_types: if not self._discovered: self.discover_units()
CheckDiscovered(t) ==
    /\ threads[t].pc = "check"
    /\ threads' = [threads EXCEPT ![t].pc = IF discovered THEN "answer" ELSE "guard"]
    /\ UNCHANGED <<registry, discovered, reglog, registryFrame>>

\* discover_units, its first statement; reglog counts the bodies begun
DiscoverUnitsGuard(t) ==
    /\ threads[t].pc = "guard"
    /\ IF DiscoveryGuard(discovered)
       THEN /\ threads' = [threads EXCEPT ![t] = AfterDiscovery(@)]
            /\ UNCHANGED reglog
       ELSE /\ threads' = [threads EXCEPT ![t].pc = "entry_points", ![t].i = 1]
            /\ reglog' = [reglog EXCEPT !.runs = @ + 1]
    /\ UNCHANGED <<registry, discovered, registryFrame>>

\* the loop over the entry points: load, then register_unit's membership
\* test; its ValueError is caught and the loop goes on
LoadEntryPoint(t) ==
    /\ threads[t].pc = "entry_points"
    /\ threads[t].i <= Len(entry_points)
    /\ threads' = [threads EXCEPT ![t] =
          IF RegisterUnitRaises(registry, entry_points[@.i])
          THEN [@ EXCEPT !.i = @ + 1]
          ELSE [@ EXCEPT !.pc = "store_entry_point"]]
    /\ UNCHANGED <<registry, discovered, reglog, registryFrame>>

\* register_unit's store for the entry point in hand
StoreEntryPoint(t) ==
    /\ threads[t].pc = "store_entry_point"
    /\ registry' = Registered(registry, entry_points[threads[t].i])
    /\ threads' = [threads EXCEPT ![t].pc = "entry_points", ![t].i = @ + 1]
    /\ UNCHANGED <<discovered, reglog, registryFrame>>

\* self._discover_from_package()
DiscoverPackage(t) ==
    /\ threads[t].pc = "entry_points"
    /\ threads[t].i > Len(entry_points)
    /\ registry' = DiscoverFromPackage(registry)
    /\ threads' = [threads EXCEPT ![t].pc = "set_flag"]
    /\ UNCHANGED <<discovered, reglog, registryFrame>>

\* self._discovered = True, and discover_units returns
SetDiscovered(t) ==
    /\ threads[t].pc = "set_flag"
    /\ discovered' = TRUE
    /\ threads' = [threads EXCEPT ![t] = AfterDiscovery(@)]
    /\ UNCHANGED <<registry, reglog, registryFrame>>

\* get_unit_class and list_unit_types answer from self._units
Answer(t) ==
    /\ threads[t].pc = "answer"
    /\ threads' = [threads EXCEPT ![t] =
          [@ EXCEPT !.pc = "idle",
                    !.answer =
                       IF threads[t].op = "list_unit_types" THEN [keys |-> DOMAIN registry]
                       ELSE IF threads[t].arg \notin DOMAIN registry
                       THEN [error |-> "KeyError", text |-> "not found in registry",
                             arg |-> threads[t].arg]
                       ELSE [class |-> registry[threads[t].arg]]]]
    /\ UNCHANGED <<registry, discovered, reglog, registryFrame>>

NextRegistry ==
    \E t \in DOMAIN threads :
        \/ RegisterUnitCall(t)
        \/ DiscoverUnitsCall(t)
        \/ GetUnitClassCall(t)
        \/ ListUnitTypesCall(t)
        \/ RegisterCheck(t)
        \/ RegisterStore(t)
        \/ CheckDiscovered(t)
        \/ DiscoverUnitsGuard(t)
        \/ LoadEntryPoint(t)
        \/ StoreEntryPoint(t)
        \/ DiscoverPackage(t)
        \/ SetDiscovered(t)
        \/ Answer(t)

\* one thread: the operations follow one another
InitRegistry == InitRegistryOf({"t1"})

SpecRegistry == InitRegistry /\ [][NextRegistry]_vars

\* two threads: the operations interleave statement by statement
InitRegistryConcurrent == InitRegistryOf({"t1", "t2"})

SpecRegistryConcurrent == InitRegistryConcurrent /\ [][NextRegistry]_vars

\* ------------------------------------------- the functions on their own
\* The steam turbine, the parameter model, merge_with_defaults and the
\* thermodynamic state called directly, as the unit tests call them.  A port
\* state is a dict; of its keys h_kJ_kg, m_dot_kg_s and medium matter to the
\* turbine, the others are copied through.  Efficiencies are in
\* thousandths, so their product is in 1e-9 and a shaft power
\* m_dot * delta_h * efficiency / 1000 is an integer number of 1e-12 MW.

\* the fields of SteamTurbineParams that evaluate reads, with their defaults
SteamTurbineParamsDefaults ==
    [eta_isentropic |-> 880, mech_efficiency |-> 985, generator_efficiency |-> 985]

\* SteamTurbineParams(**params): the fields of the instance
SteamTurbineParams(params) == Updated(SteamTurbineParamsDefaults, params)

EnthalpyValues == {3199, 3200}

MassFlowValues == {0, 1, 2}

MediumValues == {"steam", "water"}

\* a key absent, or present with one of the values
Optional(key, values) == {EmptyDict} \cup {[k \in {key} |-> v] : v \in values}

\* the port states: every key present or absent, {} included
PortStates ==
    {Updated(Updated(h, m), medium) :
        h \in Optional("h_kJ_kg", EnthalpyValues),
        m \in Optional("m_dot_kg_s", MassFlowValues),
        medium \in Optional("medium", MediumValues)}

\* the inputs mappings: inlet and outlet, one of them, or no port
TurbineInputs ==
    UNION {[ports -> PortStates] : ports \in SUBSET {"inlet", "outlet"}}

\* bool(x) of a port state or None: None and {} are false
Truthy(state) == state # None /\ state # EmptyDict

\* isinstance(state.get(key), (int, float)): the key is present
IsNumber(state, key) == key \in DOMAIN state

\* bool(state.get("m_dot_kg_s")): absent and 0 are false
HasFlow(state) == "m_dot_kg_s" \in DOMAIN state /\ state["m_dot_kg_s"] # 0

\* the state whose m_dot_kg_s is read by
\* outlet_state.get("m_dot_kg_s") or inlet_state.get("m_dot_kg_s")
FlowState(inlet_state, outlet_state) ==
    IF HasFlow(outlet_state) THEN outlet_state ELSE inlet_state

Max(a, b) == IF a >= b THEN a ELSE b

\* max(h_in - h_out, 0.0) without the clamp
DeltaHUnclamped(h_in, h_out) == h_in - h_out

\* delta_h = max(h_in - h_out, 0.0)
DeltaH(h_in, h_out) == Max(h_in - h_out, 0)

\* efficiency = max(0.0, min(1.0, eta * mech * gen)), in 1e-9
Efficiency(params) ==
    LET product == params.eta_isentropic * params.mech_efficiency
                                         * params.generator_efficiency
    IN  Max(0, IF product <= 1000000000 THEN product ELSE 1000000000)

\* outlet_state = inputs.get("outlet") or inlet_state
OutletState(inputs) ==
    IF Truthy(DictGet(inputs, "outlet", None))
    THEN inputs["outlet"] ELSE DictGet(inputs, "inlet", None)

\* shaft_power_mw as evaluate computes it
ShaftPower(inputs, params) ==
    LET inlet_state == DictGet(inputs, "inlet", None)
        outlet_state == OutletState(inputs)
    IN  IF Truthy(inlet_state) /\ Truthy(outlet_state)
        THEN LET flow_state == FlowState(inlet_state, outlet_state)
             IN  IF /\ IsNumber(inlet_state, "h_kJ_kg")
                    /\ IsNumber(outlet_state, "h_kJ_kg")
                    /\ IsNumber(flow_state, "m_dot_kg_s")
                 THEN flow_state["m_dot_kg_s"]
                         * DeltaH(inlet_state["h_kJ_kg"], outlet_state["h_kJ_kg"])
                         * Efficiency(params)
                 ELSE 0
        ELSE 0

\* outputs before the medium and the shaft power are written: a copy of
\* every input state, and a copy of the inlet as outlet when none was given
CopiedOutputs(inputs) ==
    IF "outlet" \notin DOMAIN inputs /\ "inlet" \in DOMAIN inputs
    THEN Updated(inputs, [p \in {"outlet"} |-> inputs["inlet"]])
    ELSE inputs

\* outputs["outlet"] is looked up in a dict that has no such key
EvaluateRaises(inputs) == "outlet" \notin DOMAIN CopiedOutputs(inputs)

EvaluateKeyError == [exc |-> "KeyError", text |-> "{}", arg |-> "outlet"]

\* the mapping evaluate returns: the outlet's medium forced to "steam", its
\* shaft_power_MW set
EvaluateOutputs(inputs, params) ==
    LET outputs == CopiedOutputs(inputs)
    IN  [outputs EXCEPT !["outlet"] =
            Updated(@, [key \in {"medium", "shaft_power_MW"} |->
                          IF key = "medium" THEN "steam"
                          ELSE ShaftPower(inputs, params)])]

\* evaluate that writes into the caller's outlet state instead of a copy
SteamTurbineEvaluateInPlace(inputs, params) ==
    IF EvaluateRaises(inputs)
    THEN [outputs |-> None, error |-> EvaluateKeyError,
          inputs |-> inputs, params |-> params]
    ELSE [outputs |-> EvaluateOutputs(inputs, params), error |-> None,
          inputs |-> IF "outlet" \in DOMAIN inputs
                     THEN [inputs EXCEPT !["outlet"] =
                              EvaluateOutputs(inputs, params)["outlet"]]
                     ELSE inputs,
          params |-> params]

\* SteamTurbineBase.evaluate(inputs, ambient): what it returns or raises, and
\* the caller's inputs and the instance's params as the call leaves them.
\* Every state is copied with dict(state) before it is written and
\* self.params is only read.
SteamTurbineEvaluate(inputs, params) ==
    IF EvaluateRaises(inputs)
    THEN [outputs |-> None, error |-> EvaluateKeyError,
          inputs |-> inputs, params |-> params]
    ELSE [outputs |-> EvaluateOutputs(inputs, params), error |-> None,
          inputs |-> inputs, params |-> params]

\* the argument lists evaluate is called with: the one its signature takes,
\* and the one of the UnitBase protocol, which the engine and the unit tests
\* use
CallForms == {"inputs, ambient", "inputs, params, ambient"}

\* evaluate(self, inputs, ambient=None) given three positional arguments
CallFormRaises(form) == form = "inputs, params, ambient"

\* one call of evaluate on an instance: what the caller gets, and the
\* caller's inputs and the instance's params afterwards
EvaluateCall(inputs, params, form) ==
    IF CallFormRaises(form)
    THEN [outputs |-> None, error |-> EvaluateCallError,
          inputs |-> inputs, params |-> params]
    ELSE SteamTurbineEvaluate(inputs, params)

\* params with two and with three fields out of range
TwoOutOfRangeParams ==
    << <<"mech_efficiency", 1500>>, <<"generator_efficiency", 1500>> >>

AllOutOfRangeParams ==
    << <<"generator_efficiency", 1500>>, <<"eta_isentropic", 2000>>,
       <<"mech_efficiency", 1500>> >>

\* the params a turbine is constructed with
TurbineParams ==
    {NoParams, OverridingParams, TwoParams, OutOfRangeParams,
     TwoOutOfRangeParams, AllOutOfRangeParams}

\* user params with a key the defaults do not know
UnknownKeyParams == << <<"blade_rows", 3>> >>

MixedParams == << <<"eta_isentropic", 950>>, <<"blade_rows", 3>> >>

MergeParams == {NoParams, OverridingParams, TwoParams, UnknownKeyParams, MixedParams}

\* "SteamTurbineHP" is no key of the defaults table
MergeTypes == {"steam_turbine", "auxiliary", "SteamTurbineHP"}

\* ThermodynamicState: the media the property functions know, and one more
Media == {"steam", "water", "gas", "oil"}

TemperaturesC == {25, 540}

PressuresKPa == {101, 15000}

\* the values returned for a medium that is none of steam, water, gas
FallbackEnthalpy == 2500
FallbackEntropy == 7
FallbackDensity == 1

\* A property computed by a formula or by the property library is kept as
\* the formula and its arguments; a fallback is the number itself.
Computed(law, T_C, P_kPa_abs) == [law |-> law, T_C |-> T_C, P_kPa_abs |-> P_kPa_abs]

Fallback(value) == [law |-> "fallback", value |-> value]

\* ThermodynamicState._calculate_enthalpy
CalculateEnthalpy(medium, T_C, P_kPa_abs) ==
    IF medium \in {"steam", "water"}
    THEN Computed("iapws.IAPWS97.h(T_K, P_Pa) / 1000", T_C, P_kPa_abs)
    ELSE IF medium = "gas" THEN Computed("1.005 * T_C", T_C, P_kPa_abs)
    ELSE Fallback(FallbackEnthalpy)

\* ThermodynamicState._calculate_entropy
CalculateEntropy(medium, T_C, P_kPa_abs) ==
    IF medium \in {"steam", "water"}
    THEN Computed("iapws.IAPWS97.s(T_K, P_Pa) / 1000", T_C, P_kPa_abs)
    ELSE IF medium = "gas"
    THEN Computed("1.005 * log(T_K / 288.15) - 0.287 * log(P_kPa_abs / 101.3)",
                  T_C, P_kPa_abs)
    ELSE Fallback(FallbackEntropy)

\* ThermodynamicState._calculate_density
CalculateDensity(medium, T_C, P_kPa_abs) ==
    IF medium \in {"steam", "water"}
    THEN Computed("PropsSI('D', 'T', T_K, 'P', P_Pa, 'Water')", T_C, P_kPa_abs)
    ELSE IF medium = "gas" THEN Computed("P_Pa / (287.0 * T_K)", T_C, P_kPa_abs)
    ELSE Fallback(FallbackDensity)

\* ThermodynamicState(T_C, P_kPa_abs, medium): the properties it computes
ThermodynamicState(T_C, P_kPa_abs, medium) ==
    [T_C |-> T_C, P_kPa_abs |-> P_kPa_abs, medium |-> medium,
     h_kJ_kg |-> CalculateEnthalpy(medium, T_C, P_kPa_abs),
     s_kJ_kg_K |-> CalculateEntropy(medium, T_C, P_kPa_abs),
     rho_kg_m3 |-> CalculateDensity(medium, T_C, P_kPa_abs)]

\* range(10): the iterations of one solve in isentropic_expansion
IterationBudget == 10

\* How one solve's loop runs: the tolerance test breaks it in iteration `at`,
\* a property evaluation raises in iteration `at`, or all iterations adjust
\* the guess and the loop runs out.
SolveCourses ==
    [ends : {"break", "raise"}, at : 1..IterationBudget]
        \cup {[ends |-> "exhausted", at |-> IterationBudget]}

\* the property evaluations one solve makes
SolveIterations(course) == course.at

\* T_out_K after one solve: the guess the tolerance test accepted, the guess
\* left by the last adjustment, or the except clause's temperature drop
SolveGuess(course) ==
    CASE course.ends = "break" -> [T_out_K |-> "guess", adjusted |-> course.at - 1,
                                   within_tolerance |-> TRUE]
      [] course.ends = "exhausted" -> [T_out_K |-> "guess", adjusted |-> course.at,
                                       within_tolerance |-> FALSE]
      [] course.ends = "raise" ->
            [T_out_K |-> "inlet_state.T_K * (outlet_P_kPa_abs / inlet_state.P_kPa_abs) ** 0.286",
             adjusted |-> course.at - 1, within_tolerance |-> FALSE]

\* a property evaluation outside the two try blocks can raise only where the
\* property library is called
UnguardedOutcomes(medium) ==
    IF medium \in {"steam", "water"} THEN {"returns", "raises"} ELSE {"returns"}

\* SteamProperties.isentropic_expansion(inlet_state, outlet_P_kPa_abs):
\* the entropy solve, the enthalpy solve and the state built from the second
\* guess
IsentropicExpansion(inlet_state, outlet_P_kPa_abs, entropy_solve, enthalpy_solve, unguarded) ==
    IF unguarded = "raises"
    THEN [outlet |-> None, error |-> [type |-> "PropertyLibraryError"],
          iterations |-> <<SolveIterations(entropy_solve)>>]
    ELSE [outlet |-> [T_K |-> SolveGuess(enthalpy_solve),
                      P_kPa_abs |-> outlet_P_kPa_abs,
                      medium |-> inlet_state.medium,
                      h_kJ_kg |-> [h_in |-> inlet_state.h_kJ_kg,
                                   T_isentropic |-> SolveGuess(entropy_solve)]],
          error |-> None,
          iterations |-> <<SolveIterations(entropy_solve),
                           SolveIterations(enthalpy_solve)>>]

\* what no direct call touches
unitsFrame ==
    <<plant_graph, run_case, unit_states, violations, idx, stages,
      convergence_info, summary, registry, contract_outputs, clock,
      callsVars, registryVars, serviceVars>>

InitUnits ==
    /\ NoSingleCall
    /\ NoCalls
    /\ RegistrySettled
    /\ NoService
    /\ registry \in Registries
    /\ contract_outputs \in ContractOutputs
    /\ defaults = HardcodedDefaults
    /\ clock = 0

\* unit_class(params=unit_class.ParamModel(**params)), as create_unit and
\* the unit tests construct a turbine; result is the instance
Construct ==
    /\ pc = "Idle"
    /\ \E params \in TurbineParams :
          /\ args' = [op |-> "create_unit", params |-> params]
          /\ IF ParamModelError(AsDict(params)) # None
             THEN /\ pc' = "Raised"
                  /\ error' = ParamModelError(AsDict(params))
                  /\ UNCHANGED result
             ELSE /\ pc' = "Constructed"
                  /\ result' = [class |-> "SteamTurbineHP",
                                params |-> SteamTurbineParams(AsDict(params))]
                  /\ UNCHANGED error
    /\ UNCHANGED <<evalLog, defaults, unitsFrame>>

\* turbine.evaluate(...): the first call takes any inputs, a later one is
\* given the same inputs mapping again; evalLog keeps the calls
Evaluate ==
    /\ pc = "Constructed"
    /\ Len(evalLog) < MaxEvaluations
    /\ \E inputs \in TurbineInputs, form \in CallForms :
          /\ evalLog # <<>> => inputs = evalLog[Len(evalLog)].inputs_after
          /\ LET call == EvaluateCall(inputs, result.params, form)
             IN  /\ evalLog' = Append(evalLog,
                        [inputs |-> inputs, params |-> result.params, form |-> form,
                         outputs |-> call.outputs, error |-> call.error,
                         inputs_after |-> call.inputs,
                         params_after |-> call.params])
                 /\ result' = [result EXCEPT !.params = call.params]
    /\ UNCHANGED <<pc, args, error, defaults, unitsFrame>>

\* defaults_manager.merge_with_defaults(unit_type, user_params)
MergeDefaults ==
    /\ pc = "Idle"
    /\ \E unit_type \in MergeTypes, user_params \in MergeParams :
          LET merge == MergeWithDefaults(defaults, unit_type, user_params)
          IN  /\ args' = [op |-> "merge_with_defaults", unit_type |-> unit_type,
                          user_params |-> user_params,
                          user_params_after |-> merge.user_params]
              /\ result' = merge.merged
              /\ defaults' = merge.table
    /\ pc' = "Returned"
    /\ UNCHANGED <<error, evalLog, unitsFrame>>

\* ThermodynamicState(T_C, P_kPa_abs, medium) with no property given
NewThermodynamicState ==
    /\ pc = "Idle"
    /\ \E T_C \in TemperaturesC, P_kPa_abs \in PressuresKPa, medium \in Media :
          /\ args' = [op |-> "ThermodynamicState", T_C |-> T_C,
                      P_kPa_abs |-> P_kPa_abs, medium |-> medium]
          /\ result' = ThermodynamicState(T_C, P_kPa_abs, medium)
    /\ pc' = "Returned"
    /\ UNCHANGED <<error, evalLog, defaults, unitsFrame>>

\* SteamProperties.isentropic_expansion(ThermodynamicState(...), outlet_P)
IsentropicExpansionCall ==
    /\ pc = "Idle"
    /\ \E T_C \in TemperaturesC, P_kPa_abs \in PressuresKPa, medium \in Media,
          outlet_P_kPa_abs \in PressuresKPa,
          entropy_solve \in SolveCourses, enthalpy_solve \in SolveCourses :
       \E unguarded \in UnguardedOutcomes(medium) :
          LET call == IsentropicExpansion(ThermodynamicState(T_C, P_kPa_abs, medium),
                                          outlet_P_kPa_abs, entropy_solve,
                                          enthalpy_solve, unguarded)
          IN  /\ args' = [op |-> "isentropic_expansion", medium |-> medium,
                          outlet_P_kPa_abs |-> outlet_P_kPa_abs,
                          entropy_solve |-> entropy_solve,
                          enthalpy_solve |-> enthalpy_solve,
                          iterations |-> call.iterations]
              /\ IF call.error # None
                 THEN /\ pc' = "Raised"
                      /\ error' = call.error
                      /\ UNCHANGED result
                 ELSE /\ pc' = "Returned"
                      /\ result' = call.outlet
                      /\ UNCHANGED error
    /\ UNCHANGED <<evalLog, defaults, unitsFrame>>

NextUnits ==
    \/ Construct
    \/ Evaluate
    \/ MergeDefaults
    \/ NewThermodynamicState
    \/ IsentropicExpansionCall

SpecUnits == InitUnits /\ [][NextUnits]_vars

\* ------------------------------------------- the /simulate and /optimize handlers
\* One request to simulate_plant or optimize_plant of api/app.py.  The handler
\* imports the core, parses the body, runs PlantEngine().simulate through the
\* steps modelled above and answers; pc = "Responded" when it is left.

Handlers == {"simulate_plant", "optimize_plant"}

\* the graphs of the request bodies: at most one unit, no stream
ApiGraphs == {graph \in PlantGraphs : Len(graph.units) <= 1 /\ graph.streams = <<>>}

\* a run_case whose mode is none of the Literal values of RunCase.mode
InvalidRunCase ==
    [mode |-> "design", objective |-> "max_power", pricing |-> None,
     constraints |-> EmptyDict]

\* request: with both keys, with a run_case pydantic rejects, or with a key
\* missing
RequestBodies ==
    [plant_graph : ApiGraphs, run_case : CallCases \cup {InvalidRunCase}]
        \cup [plant_graph : {[units |-> <<>>, streams |-> <<>>]}]
        \cup [run_case : {InvalidRunCase}]

\* "from hbd.engine import PlantEngine": hbd/engine is a package whose
\* __init__ imports .plant_engine; without that module the import raises
ImportOutcomes == {"imported", "ModuleNotFoundError"}

ImportError ==
    [exc |-> "ModuleNotFoundError", text |-> "No module named '{}'",
     arg |-> "hbd.engine.plant_engine"]

ValidationError(model, field) ==
    [exc |-> "ValidationError", text |-> "1 validation error for " \o model,
     arg |-> field]

\* PlantGraph(**request["plant_graph"]) then RunCase(**request["run_case"])
ParseError(request) ==
    IF "plant_graph" \notin DOMAIN request THEN KeyErrorOf("plant_graph")
    ELSE IF "run_case" \notin DOMAIN request THEN KeyErrorOf("run_case")
    ELSE IF request.run_case.mode \notin {"simulate", "optimize"}
    THEN ValidationError("RunCase", "mode")
    ELSE None

\* str(e)
StrOf(exception) == <<exception.text, exception.arg>>

HTTPException(status_code, detail) ==
    [exc |-> "HTTPException", status_code |-> status_code, detail |-> detail]

JSONResponse(content) == [status_code |-> 200, content |-> content]

FailurePrefix(handler) ==
    IF handler = "simulate_plant" THEN "Simulation failed: " ELSE "Optimization failed: "

\* the handler lets the exception of the core through as it is
HandlerOutcomeUncaught(handler, raised, solved) ==
    IF raised # None
    THEN [raises |-> raised, returns |-> None]
    ELSE [raises |-> None, returns |-> JSONResponse(solved)]

\* try: ... return JSONResponse(content=result.dict())
\* except Exception as e: raise HTTPException(status_code=400, detail=...)
HandlerOutcome(handler, raised, solved) ==
    IF raised # None
    THEN [raises |-> HTTPException(400, <<FailurePrefix(handler), StrOf(raised)>>),
          returns |-> None]
    ELSE [raises |-> None, returns |-> JSONResponse(solved)]

\* the handler up to engine.simulate(plant_graph, run_case)
HandleRequest ==
    /\ pc = "Idle"
    /\ \E handler \in Handlers, request \in RequestBodies, import \in ImportOutcomes :
          /\ args' = [handler |-> handler, request |-> request, raised |-> None]
          /\ IF import # "imported"
             THEN Raise(ImportError) /\ UNCHANGED <<plant_graph, run_case>>
             ELSE IF ParseError(request) # None
             THEN Raise(ParseError(request)) /\ UNCHANGED <<plant_graph, run_case>>
             ELSE /\ plant_graph' = request.plant_graph
                  /\ run_case' = IF handler = "optimize_plant"
                                 THEN [request.run_case EXCEPT !.mode = "optimize"]
                                 ELSE request.run_case
                  /\ Enter("Compile")
                  /\ UNCHANGED error
    /\ UNCHANGED <<unit_states, violations, registry, contract_outputs, idx, evalLog,
                   convergence_info, summary, result, defaults, clock,
                   callsVars, registryVars, serviceVars>>

\* the handler's return or the except clause
Respond ==
    /\ pc \in {"Done", "Failed"}
    /\ LET outcome == HandlerOutcome(args.handler, error, result)
       IN  /\ error' = outcome.raises
           /\ result' = outcome.returns
    /\ args' = [args EXCEPT !.raised = error]
    /\ Enter("Responded")
    /\ UNCHANGED <<plant_graph, run_case, unit_states, violations, registry,
                   contract_outputs, idx, evalLog, convergence_info, summary,
                   defaults, clock, callsVars, registryVars, serviceVars>>

NextSolveApi ==
    \/ HandleRequest
    \/ CompileGraph
    \/ Initialize
    \/ EvaluateUnit
    \/ ForwardPassDone
    \/ RecycleIteration
    \/ Summarize
    \/ Optimize
    \/ Respond

SpecSolveApi == Init /\ [][NextSolveApi]_vars

\* ------------------------------------------------- the metadata handlers
\* list_schemas, get_schema, get_example_graph and get_unit_palette of
\* api/app.py, each call in one step, with the files changing on disk and the
\* caller changing what it was handed between the calls.  A JSON document is
\* known by its version; 0 is a content no file ever had.

SchemaNames == {"SteamTurbineHP"}

GraphIds == {"ccpp_base"}

PaletteKeys == {"units"}

\* what a handler is asked for
RequestedNames == SchemaNames \cup GraphIds \cup {"UnknownTurbine"}

Versions == {1, 2}

\* the dicts {name: document} over some of the names
Documents(names, versions) == UNION {[present -> versions] : present \in SUBSET names}

\* SCHEMAS_DIR/*.schema.json, PALETTE_PATH and EXAMPLES_GRAPH_DIR/*.json
Disks ==
    [schemas : Documents(SchemaNames, Versions),
     palette : Documents(PaletteKeys, {1}),
     graphs : Documents(GraphIds, {1})]

\* d[key] = document
Put(d, key, document) ==
    [k \in DOMAIN d \cup {key} |-> IF k = key THEN document ELSE d[k]]

\* _schema_index(): the dict of the schema files
LoadSchemaIndex(files) == files.schemas

\* _unit_palette(): the palette file's content, {} without the file
LoadUnitPalette(files) == files.palette

\* _graph_list(): graph id -> path of the example graph files
LoadGraphList(files) == DOMAIN files.graphs

NotCached(empty) == [filled |-> FALSE, value |-> empty]

EmptyCaches ==
    [schema_index |-> NotCached(EmptyDict), unit_palette |-> NotCached(EmptyDict),
     graph_list |-> NotCached({})]

\* a call of an lru_cache(maxsize=1) function without arguments
Cached(cache, loader, loaded) ==
    IF cache[loader].filled THEN cache
    ELSE [cache EXCEPT ![loader] = [filled |-> TRUE, value |-> loaded]]

\* loader.cache_clear() when refresh is set
Refreshed(cache, loader, refresh) ==
    IF refresh THEN [cache EXCEPT ![loader] = EmptyCaches[loader]] ELSE cache

\* the handler hands out the cached object itself
SameObject(obj) == [value |-> obj, cached_object |-> TRUE]

\* json.loads(json.dumps(obj)): a new object of the same content
DeepCopy(obj) == [value |-> obj, cached_object |-> FALSE]

\* list_schemas(refresh)
ListSchemasCall(cache, files, refresh) ==
    LET after == Cached(Refreshed(cache, "schema_index", refresh), "schema_index",
                        LoadSchemaIndex(files))
    IN  [cache |-> after, returns |-> DeepCopy(after.schema_index.value)]

\* get_unit_palette(refresh)
GetUnitPaletteCall(cache, files, refresh) ==
    LET after == Cached(Refreshed(cache, "unit_palette", refresh), "unit_palette",
                        LoadUnitPalette(files))
    IN  [cache |-> after, returns |-> DeepCopy(after.unit_palette.value)]

NotFound(kind, name) == HTTPException(404, <<kind \o " '{}' not found", name>>)

FileNotFoundError(name) ==
    [exc |-> "FileNotFoundError", text |-> "No such file or directory: '{}.json'",
     arg |-> name]

NeverCalled == [called |-> FALSE, value |-> EmptyDict]

InitMetadata ==
    /\ NoSingleCall
    /\ NoCalls
    /\ RegistrySettled
    /\ registry = EmptyDict
    /\ contract_outputs = EmptyDict
    /\ defaults = HardcodedDefaults
    /\ clock = 0
    /\ disk \in Disks
    /\ lru_cache = EmptyCaches
    /\ responses = [list_schemas |-> NeverCalled, get_unit_palette |-> NeverCalled]
    /\ stop_event = FALSE
    /\ process = EmptyDict
    /\ tasks = EmptyDict

\* what no metadata handler touches
metadataFrame ==
    <<plant_graph, run_case, unit_states, violations, idx, stages, evalLog,
      convergence_info, summary, registry, contract_outputs, defaults, clock,
      callsVars, registryVars, stop_event, process, tasks>>

\* the request as the claims see it: what was asked, what list_schemas or
\* get_unit_palette had returned before, the files at the time of the call,
\* the index consulted and the value handed out
Request(op, name, refresh, previous, index, returned) ==
    [op |-> op, name |-> name, refresh |-> refresh, previous |-> previous,
     on_disk |-> disk, index |-> index, returned |-> returned]

ListSchemas ==
    \E refresh \in BOOLEAN :
        LET call == ListSchemasCall(lru_cache, disk, refresh)
        IN  /\ lru_cache' = call.cache
            /\ result' = [call.returns EXCEPT !.value = @] @@
                         [loader |-> "schema_index", key |-> ""]
            /\ args' = Request("list_schemas", "", refresh, responses.list_schemas,
                               DOMAIN call.returns.value, call.returns.value)
            /\ responses' = [responses EXCEPT !.list_schemas =
                                [called |-> TRUE, value |-> call.returns.value]]
            /\ error' = None
            /\ pc' = "Returned"
            /\ UNCHANGED <<disk, metadataFrame>>

\* get_schema(schema_name, refresh): list_schemas, then the entry of the copy
GetSchema ==
    \E schema_name \in RequestedNames, refresh \in BOOLEAN :
        LET call == ListSchemasCall(lru_cache, disk, refresh)
            schemas == call.returns.value
        IN  /\ lru_cache' = call.cache
            /\ responses' = [responses EXCEPT !.list_schemas =
                                [called |-> TRUE, value |-> schemas]]
            /\ IF schema_name \notin DOMAIN schemas
               THEN /\ error' = NotFound("Schema", schema_name)
                    /\ result' = None
                    /\ pc' = "Raised"
                    /\ args' = Request("get_schema", schema_name, refresh,
                                       responses.list_schemas, DOMAIN schemas, None)
               ELSE /\ error' = None
                    /\ result' = [value |-> schemas[schema_name],
                                  cached_object |-> call.returns.cached_object,
                                  loader |-> "schema_index", key |-> schema_name]
                    /\ pc' = "Returned"
                    /\ args' = Request("get_schema", schema_name, refresh,
                                       responses.list_schemas, DOMAIN schemas,
                                       [document |-> schemas[schema_name]])
            /\ UNCHANGED <<disk, metadataFrame>>

\* get_example_graph(graph_id, refresh): the path from the cached list, the
\* document from the file
GetExampleGraph ==
    \E graph_id \in RequestedNames, refresh \in BOOLEAN :
        LET after == Cached(Refreshed(lru_cache, "graph_list", refresh), "graph_list",
                            LoadGraphList(disk))
            graphs == after.graph_list.value
        IN  /\ lru_cache' = after
            /\ IF graph_id \notin graphs
               THEN /\ error' = NotFound("Graph", graph_id)
                    /\ result' = None
                    /\ pc' = "Raised"
                    /\ args' = Request("get_example_graph", graph_id, refresh,
                                       NeverCalled, graphs, None)
               ELSE IF graph_id \notin DOMAIN disk.graphs
               THEN /\ error' = FileNotFoundError(graph_id)
                    /\ result' = None
                    /\ pc' = "Raised"
                    /\ args' = Request("get_example_graph", graph_id, refresh,
                                       NeverCalled, graphs, None)
               ELSE /\ error' = None
                    /\ result' = [value |-> disk.graphs[graph_id],
                                  cached_object |-> FALSE,
                                  loader |-> "graph_list", key |-> graph_id]
                    /\ pc' = "Returned"
                    /\ args' = Request("get_example_graph", graph_id, refresh,
                                       NeverCalled, graphs,
                                       [document |-> disk.graphs[graph_id]])
            /\ UNCHANGED <<disk, responses, metadataFrame>>

GetUnitPalette ==
    \E refresh \in BOOLEAN :
        LET call == GetUnitPaletteCall(lru_cache, disk, refresh)
        IN  /\ lru_cache' = call.cache
            /\ result' = [call.returns EXCEPT !.value = @] @@
                         [loader |-> "unit_palette", key |-> ""]
            /\ args' = Request("get_unit_palette", "", refresh,
                               responses.get_unit_palette,
                               DOMAIN call.returns.value, call.returns.value)
            /\ responses' = [responses EXCEPT !.get_unit_palette =
                                [called |-> TRUE, value |-> call.returns.value]]
            /\ error' = None
            /\ pc' = "Returned"
            /\ UNCHANGED <<disk, metadataFrame>>

\* a file is written, replaced or removed while the server runs
EditDisk ==
    /\ disk' \in Disks \ {disk}
    /\ UNCHANGED <<pc, args, result, error, lru_cache, responses, metadataFrame>>

\* the caller changes the value it was handed: an entry of a dict is set, or
\* the document is rewritten; an object shared with a cache changes there too
MutateReturned ==
    /\ pc = "Returned"
    /\ \E key \in SchemaNames \cup PaletteKeys :
          LET changed == IF result.key = "" THEN Put(result.value, key, 0) ELSE 0
          IN  /\ changed # result.value
              /\ result' = [result EXCEPT !.value = changed]
              /\ lru_cache' =
                    IF ~result.cached_object THEN lru_cache
                    ELSE IF result.key = ""
                    THEN [lru_cache EXCEPT ![result.loader].value = changed]
                    ELSE [lru_cache EXCEPT ![result.loader].value =
                              Put(@, result.key, changed)]
    /\ UNCHANGED <<pc, args, error, disk, responses, metadataFrame>>

NextMetadata ==
    \/ ListSchemas
    \/ GetSchema
    \/ GetExampleGraph
    \/ GetUnitPalette
    \/ EditDisk
    \/ MutateReturned

SpecMetadata == InitMetadata /\ [][NextMetadata]_vars

\* ------------------------------------------------- the dev launcher
\* main of scripts/run_dev.py from the creation of stop_event on.  Each child
\* has a process, two pump tasks that end when its pipes are closed, a wait
\* task (wait_for_process) and a stop task (stop_watcher); pc is main's
\* position.  The event loop runs every task that can go on; a child may run
\* for ever and may ignore terminate, a killed child exits, and the pipes of
\* an exited child reach their end.

Children == {"api", "ui"}

\* a child as _spawn_process leaves it
Spawned == [exited |-> FALSE, terminate_sent |-> FALSE, kill_sent |-> FALSE, eof |-> FALSE]

\* the tasks launch_process creates for one child
Created == [wait_task |-> "process.wait", stop_task |-> "stop.wait"]

\* the timeout of asyncio.wait_for passes without a kill
AfterTimeoutGivesUp(child) == child

\* except asyncio.TimeoutError: process.kill()
AfterTimeout(child) == [child EXCEPT !.kill_sent = TRUE]

\* what the launcher never touches
launcherFrame ==
    <<plant_graph, run_case, unit_states, violations, idx, stages, evalLog,
      convergence_info, summary, registry, contract_outputs, defaults, clock,
      args, error, callsVars, registryVars, disk, lru_cache, responses>>

InitLauncher ==
    /\ NoSingleCall
    /\ NoCalls
    /\ RegistrySettled
    /\ NoService
    /\ registry = EmptyDict
    /\ contract_outputs = EmptyDict
    /\ defaults = HardcodedDefaults
    /\ clock = 0

\* main: the signal handlers are installed, both launch_process calls return
Launch ==
    /\ pc = "Idle"
    /\ process' = [c \in Children |-> Spawned]
    /\ tasks' = [c \in Children |-> Created]
    /\ pc' = "stop_event.wait"
    /\ UNCHANGED <<stop_event, result, launcherFrame>>

\* SIGINT or SIGTERM reaches the launcher: stop_event.set
Signal ==
    /\ pc \in {"stop_event.wait", "gather"}
    /\ stop_event' = TRUE
    /\ UNCHANGED <<pc, result, process, tasks, launcherFrame>>

\* a child exits on its own account or because it was sent terminate
ChildExits(c) ==
    /\ pc # "Idle"
    /\ ~process[c].exited
    /\ ~process[c].kill_sent
    /\ process' = [process EXCEPT ![c].exited = TRUE]
    /\ UNCHANGED <<pc, result, stop_event, tasks, launcherFrame>>

\* a child that was sent kill exits
ChildKilled(c) ==
    /\ pc # "Idle"
    /\ ~process[c].exited
    /\ process[c].kill_sent
    /\ process' = [process EXCEPT ![c].exited = TRUE]
    /\ UNCHANGED <<pc, result, stop_event, tasks, launcherFrame>>

\* the pipes of an exited child are closed: both pump tasks end
PipesClose(c) ==
    /\ pc # "Idle"
    /\ process[c].exited
    /\ ~process[c].eof
    /\ process' = [process EXCEPT ![c].eof = TRUE]
    /\ UNCHANGED <<pc, result, stop_event, tasks, launcherFrame>>

\* wait_for_process: process.wait() returns
WaitReturns(c) ==
    /\ pc # "Idle"
    /\ tasks[c].wait_task = "process.wait"
    /\ process[c].exited
    /\ tasks' = [tasks EXCEPT ![c].wait_task = "gather"]
    /\ UNCHANGED <<pc, result, stop_event, process, launcherFrame>>

\* wait_for_process: the pump tasks are gathered, stop.set(), return
WaitSetsStop(c) ==
    /\ pc # "Idle"
    /\ tasks[c].wait_task = "gather"
    /\ process[c].eof
    /\ stop_event' = TRUE
    /\ tasks' = [tasks EXCEPT ![c].wait_task = "done"]
    /\ UNCHANGED <<pc, result, process, launcherFrame>>

\* stop_watcher: stop.wait() returns; terminate if returncode is None
StopWatcherWakes(c) ==
    /\ pc # "Idle"
    /\ tasks[c].stop_task = "stop.wait"
    /\ stop_event
    /\ IF ~process[c].exited
       THEN /\ process' = [process EXCEPT ![c].terminate_sent = TRUE]
            /\ tasks' = [tasks EXCEPT ![c].stop_task = "wait_for"]
       ELSE /\ tasks' = [tasks EXCEPT ![c].stop_task = "done"]
            /\ UNCHANGED process
    /\ UNCHANGED <<pc, result, stop_event, launcherFrame>>

\* stop_watcher: asyncio.wait_for(process.wait(), timeout=5) times out
Timeout(c) ==
    /\ pc # "Idle"
    /\ tasks[c].stop_task = "wait_for"
    /\ ~process[c].exited
    /\ process' = [process EXCEPT ![c] = AfterTimeout(@)]
    /\ tasks' = [tasks EXCEPT ![c].stop_task = "process.wait"]
    /\ UNCHANGED <<pc, result, stop_event, launcherFrame>>

\* stop_watcher: process.wait() returns, inside wait_for or after the kill
StopWatcherDone(c) ==
    /\ pc # "Idle"
    /\ tasks[c].stop_task \in {"wait_for", "process.wait"}
    /\ process[c].exited
    /\ tasks' = [tasks EXCEPT ![c].stop_task = "done"]
    /\ UNCHANGED <<pc, result, stop_event, process, launcherFrame>>

\* main: stop_event.wait() returns
MainWakes ==
    /\ pc = "stop_event.wait"
    /\ stop_event
    /\ pc' = "gather"
    /\ UNCHANGED <<result, stop_event, process, tasks, launcherFrame>>

\* main: asyncio.gather(*watchers, return_exceptions=True), return 0
MainReturns ==
    /\ pc = "gather"
    /\ \A c \in Children : tasks[c].wait_task = "done" /\ tasks[c].stop_task = "done"
    /\ pc' = "Returned"
    /\ result' = [returns |-> 0]
    /\ UNCHANGED <<stop_event, process, tasks, launcherFrame>>

NextLauncher ==
    \/ Launch
    \/ Signal
    \/ \E c \in Children : ChildExits(c)
    \/ \E c \in Children : ChildKilled(c)
    \/ \E c \in Children : PipesClose(c)
    \/ \E c \in Children : WaitReturns(c)
    \/ \E c \in Children : WaitSetsStop(c)
    \/ \E c \in Children : StopWatcherWakes(c)
    \/ \E c \in Children : Timeout(c)
    \/ \E c \in Children : StopWatcherDone(c)
    \/ MainWakes
    \/ MainReturns

\* the event loop runs every task that is ready and its timers fire; the
\* operating system ends a killed process and closes the pipes of an ended one
FairLauncher ==
    /\ WF_vars(Launch)
    /\ WF_vars(MainWakes)
    /\ WF_vars(MainReturns)
    /\ \A c \in Children :
          /\ WF_vars(WaitReturns(c))
          /\ WF_vars(WaitSetsStop(c))
          /\ WF_vars(StopWatcherWakes(c))
          /\ WF_vars(Timeout(c))
          /\ WF_vars(StopWatcherDone(c))
          /\ WF_vars(ChildKilled(c))
          /\ WF_vars(PipesClose(c))

SpecLauncher == InitLauncher /\ [][NextLauncher]_vars /\ FairLauncher

\* ------------------------------------------------- vocabulary of the claims
Started == pc # "Idle"

Ended == pc \in {"Done", "Failed"}

CountIn(seq, x) == Cardinality({k \in DOMAIN seq : seq[k] = x})

UniqueIds(graph) ==
    \A j, k \in DOMAIN graph.units :
        graph.units[j].id = graph.units[k].id => j = k

\* a graph the compiler accepts, with unique unit identifiers
ValidGraph(graph) == CompileError(graph) = None /\ UniqueIds(graph)

\* unit-level edges of the stream graph: <<source unit, destination unit>>
Edges(graph) ==
    {<<UnitOf(graph.streams[k].from_), UnitOf(graph.streams[k].to)>> :
        k \in DOMAIN graph.streams}

Successors(E, S) == {e[2] : e \in {d \in E : d[1] \in S}}

RECURSIVE ReachWithin(_, _, _)
ReachWithin(E, S, n) ==
    IF n = 0 THEN S ELSE ReachWithin(E, S \cup Successors(E, S), n - 1)

OnCycle(graph, u) ==
    u \in ReachWithin(Edges(graph), Successors(Edges(graph), {u}),
                      Cardinality(Edges(graph)))

HasCycle(graph) == \E u \in DeclaredIds(graph) : OnCycle(graph, u)

StageOrder(mode) ==
    <<"Compile", "Initialize", "ForwardPass", "RecycleConverging", "Summarized">>
    \o (IF mode = "optimize" THEN <<"Optimizing">> ELSE <<>>)
    \o <<"Done">>

\* ------------------------------------------------------------------ claims

\* C1: the stages of a run are entered in the fixed order Compile,
\* Initialize, ForwardPass, RecycleConverging, Summarized, Optimizing (only in
\* optimize mode), Done; the run is at the last stage it entered; a run that
\* raised entered Failed after a proper prefix of that order and nothing later.
C1_StageOrder ==
    Started =>
        LET order == StageOrder(run_case.mode)
        IN  /\ pc = stages[Len(stages)]
            /\ \E n \in 1..Len(order) :
                  \/ stages = SubSeq(order, 1, n)
                  \/ /\ n < Len(order)
                     /\ stages = SubSeq(order, 1, n) \o <<"Failed">>

C1_Witness ==
    /\ pc = "Done"
    /\ run_case.mode = "optimize"
    /\ stages = StageOrder("optimize")

\* C2 as stated: whenever a stream endpoint names an undeclared unit id, the
\* call fails with an error that names such an id, no evaluate was invoked
\* and there is no Result.
C2_Original ==
    (Started /\ pc # "Compile" /\ DanglingStreams(plant_graph) # {}) =>
        /\ pc = "Failed"
        /\ error.arg \in
              {UnitOf(plant_graph.streams[k].from_) : k \in DOMAIN plant_graph.streams}
              \cup {UnitOf(plant_graph.streams[k].to) : k \in DOMAIN plant_graph.streams}
        /\ error.arg \notin DeclaredIds(plant_graph)
        /\ evalLog = <<>>
        /\ result = None

\* C2 amended: a graph with a stream endpoint naming an undeclared unit id
\* fails in Compile, before any evaluate and with no Result; when every unit
\* type is registered the error is the stream error naming the undeclared id
\* of the first such stream, its source if that is undeclared, else its
\* destination.
C2_DanglingStreamFails ==
    (Started /\ pc # "Compile" /\ DanglingStreams(plant_graph) # {}) =>
        /\ pc = "Failed"
        /\ stages = <<"Compile", "Failed">>
        /\ evalLog = <<>>
        /\ result = None
        /\ UnknownTypeUnits(plant_graph) = {} =>
              LET first == plant_graph.streams[Min(DanglingStreams(plant_graph))]
                  source == UnitOf(first.from_)
              IN  IF source \notin DeclaredIds(plant_graph)
                  THEN /\ error.text = "Stream source unit '{}' not found"
                       /\ error.arg = source
                  ELSE /\ error.text = "Stream destination unit '{}' not found"
                       /\ error.arg = UnitOf(first.to)

\* a stream whose source is declared and whose destination is not
C2_Witness ==
    /\ pc = "Failed"
    /\ UnknownTypeUnits(plant_graph) = {}
    /\ \E k \in DOMAIN plant_graph.streams :
          /\ k = Min(DanglingStreams(plant_graph))
          /\ UnitOf(plant_graph.streams[k].from_) \in DeclaredIds(plant_graph)
          /\ error.arg = UnitOf(plant_graph.streams[k].to)

Feeders(graph, u) ==
    {UnitOf(graph.streams[k].from_) :
        k \in {j \in DOMAIN graph.streams : FeedsUnit(graph.streams[j].to, u)}}

\* C4 as stated: in a valid graph without a cycle, whatever the declaration
\* order, evaluate is invoked on a unit only after it was invoked on every
\* unit that feeds one of its inbound streams.
C4_DependencyOrder ==
    (Started /\ ValidGraph(plant_graph) /\ ~HasCycle(plant_graph)) =>
        \A k \in DOMAIN evalLog :
            \A f \in Feeders(plant_graph, evalLog[k]) :
                \E j \in 1..(k - 1) : evalLog[j] = f

\* C5 as stated: a simulate call on a valid graph without a cycle ends with a
\* Result, has invoked evaluate exactly once for each declared unit, and
\* reports convergence with zero iterations beyond the first pass.
C5_EachUnitOnce ==
    (Ended /\ ValidGraph(plant_graph) /\ ~HasCycle(plant_graph)) =>
        /\ result # None
        /\ \A k \in DOMAIN plant_graph.units :
              CountIn(evalLog, plant_graph.units[k].id) = 1
        /\ result.mass_energy_balance.converged
        /\ result.mass_energy_balance.iterations - 1 = 0

\* C6 as stated: the Result of a graph with a cycle comes from a repeated
\* forward pass: every unit on a cycle was evaluated again, fed with the
\* previous pass's outputs, and the Result says converged exactly when the
\* closure error is within tolerance.
C6_RecycleExercised ==
    (pc = "Done" /\ ValidGraph(plant_graph) /\ HasCycle(plant_graph)) =>
        /\ result # None
        /\ \A u \in DeclaredIds(plant_graph) :
              OnCycle(plant_graph, u) => CountIn(evalLog, u) >= 2
        /\ result.mass_energy_balance.converged
              <=> result.mass_energy_balance.closure_error_pct <= ClosureTolerance

ProducedShaftPower(states, u) ==
    LET shaft == [p \in DOMAIN states[u].ports |->
                     DictGet(states[u].ports[p], "shaft_power_MW", 0)]
    IN  SumOver(shaft, DOMAIN states[u].ports)

ProducedBy(states, units) ==
    LET produced == [u \in DOMAIN states |-> ProducedShaftPower(states, u)]
    IN  SumOver(produced, units)

\* C8 as stated: in a Result, ST_power_MW is the sum of the shaft power
\* produced by the steam-turbine units, GT_power_MW that of the gas-turbine
\* units, and NET_power_MW = GT_power_MW + ST_power_MW - AUX_load_MW.
C8_PowerAggregation ==
    result # None =>
        /\ result.summary.ST_power_MW
              = ProducedBy(result.unit_states,
                  {u \in DOMAIN result.unit_states :
                      IsSteamTurbineType(result.unit_states[u].type)})
        /\ result.summary.GT_power_MW
              = ProducedBy(result.unit_states,
                  {u \in DOMAIN result.unit_states :
                      IsGasTurbineType(result.unit_states[u].type)})
        /\ result.summary.NET_power_MW
              = result.summary.GT_power_MW + result.summary.ST_power_MW
                   - result.summary.AUX_load_MW

\* the final state breaches the limit of constraint c: a port state is hotter
\* than the metal temperature limit
Breached(case, states, c) ==
    /\ c = "METAL.max_T_C"
    /\ \E u \in DOMAIN states : \E p \in DOMAIN states[u].ports :
          /\ "T_C" \in DOMAIN states[u].ports[p]
          /\ states[u].ports[p].T_C > case.constraints[c]

\* C9 as stated: a run whose final state breaches a declared constraint still
\* returns a Result, and its violations hold a message for that constraint.
C9_ViolationsReported ==
    pc = "Done" =>
        \A c \in DOMAIN run_case.constraints :
            Breached(run_case, unit_states, c) =>
                /\ result # None
                /\ \E k \in DOMAIN result.violations :
                      result.violations[k].constraint = c

\* C10 as stated: a call in optimize mode with objective max_revenue and no
\* pricing fails before the optimizer starts and returns no Result.
C10_MissingPricingFailsFast ==
    (Started /\ run_case.mode = "optimize" /\ run_case.objective = "max_revenue"
        /\ run_case.pricing = None) =>
        /\ result = None
        /\ pc # "Done"

\* C14: from the moment simulate is called, the caller's PlantGraph (each
\* unit's params included) and RunCase are what the caller passed in and the
\* defaults table is the table that was loaded, at every step of the solve
\* and after it, whether it succeeds or fails.
C14_InputsUnmodified ==
    Started =>
        /\ plant_graph = args.plant_graph
        /\ run_case = args.run_case
        /\ defaults = HardcodedDefaults

\* a finished solve whose merge filled defaults in next to a user override
C14_Witness ==
    /\ pc = "Done"
    /\ \E k \in DOMAIN plant_graph.units :
          LET unit == plant_graph.units[k]
          IN  /\ unit.params # NoParams
              /\ unit.type \in DOMAIN defaults
              /\ unit_states[unit.id].params # AsDict(unit.params)
              /\ unit_states[unit.id].params.eta_isentropic = 950

\* the parameters unit k of the graph is constructed with
MergedParams(graph, k) ==
    MergeWithDefaults(defaults, graph.units[k].type, graph.units[k].params).merged

\* C20 as stated: when a unit of a graph that compiles has invalid
\* parameters, no evaluate is ever invoked and the call fails.
C20_ParamsValidatedInInitialize ==
    (/\ Started
     /\ CompileError(plant_graph) = None
     /\ \E k \in DOMAIN plant_graph.units :
           ParamModelError(MergedParams(plant_graph, k)) # None) =>
        /\ evalLog = <<>>
        /\ result = None

\* the ports of unit_id that the streams of the graph name
StreamPorts(graph, unit_id) ==
    {PortOf(graph.streams[k].from_) :
        k \in {j \in DOMAIN graph.streams : UnitOf(graph.streams[j].from_) = unit_id}}
    \cup {PortOf(graph.streams[k].to) :
        k \in {j \in DOMAIN graph.streams : UnitOf(graph.streams[j].to) = unit_id}}

\* the forward pass is about to hand inputs to the evaluate of unit idx
AboutToEvaluate ==
    /\ pc = "ForwardPass"
    /\ idx <= Len(plant_graph.units)
    /\ ParamModelError(unit_states[plant_graph.units[idx].id].params) = None

\* C21 as stated: when the forward pass begins, every port a stream names
\* holds a state in the port table of its unit, and every input state handed
\* to an evaluate is a defined port state, never an empty one.
C21_PortsSeeded ==
    /\ (pc = "ForwardPass" /\ idx = 1) =>
          \A u \in DOMAIN unit_states :
              \A p \in StreamPorts(plant_graph, u) :
                  /\ p \in DOMAIN unit_states[u].ports
                  /\ unit_states[u].ports[p] # EmptyDict
    /\ AboutToEvaluate =>
          LET inputs == PrepareInputs(plant_graph, unit_states, plant_graph.units[idx].id)
          IN  \A p \in DOMAIN inputs : inputs[p] # EmptyDict

\* C22 as stated: no simulate call fails with the TypeError of the evaluate
\* call on a steam-turbine unit.
C22_SteamTurbineCallAccepted ==
    ~(pc = "Failed" /\ error = EvaluateCallError)

\* the graph passed _compile_graph
Compiled == \E k \in DOMAIN stages : stages[k] = "Initialize"

\* C32 as stated: a graph that passes compilation has unique unit
\* identifiers.
C32_UniqueUnitIds == Compiled => UniqueIds(plant_graph)

\* both parts of an endpoint are there, and the port is one the unit declares
DeclaredPort(graph, endpoint) ==
    /\ Len(endpoint) = 2
    /\ UnitOf(endpoint) \in DeclaredIds(graph)
    /\ PortOf(endpoint) \in PortSpec

\* C33 as stated: every stream of a graph that passes compilation names a
\* declared port of a declared unit at both endpoints.
C33_EndpointsNameDeclaredPorts ==
    Compiled =>
        \A k \in DOMAIN plant_graph.streams :
            /\ DeclaredPort(plant_graph, plant_graph.streams[k].from_)
            /\ DeclaredPort(plant_graph, plant_graph.streams[k].to)

CallDone(c) == calls[c].pc = "Done"

\* the two calls did not overlap on a shared engine
Sequential(c, d) == ~calls[c].overlapped /\ ~calls[d].overlapped

\* what == compares of a PlantGraph: a dict's insertion order is not part of it
GraphContent(graph) ==
    [units |-> [k \in DOMAIN graph.units |->
                   [id |-> graph.units[k].id, type |-> graph.units[k].type,
                    params |-> AsDict(graph.units[k].params)]],
     streams |-> graph.streams]

\* C11: a simulate-mode call never enters the optimize step, and two
\* simulate-mode solves of the same PlantGraph that do not overlap on an
\* engine return the same summary, unit_states and mass_energy_balance
\* whatever their objective and pricing.
C11_SimulateIgnoresOptimizerInputs ==
    /\ \A c \in CallIds :
          (calls[c].pc # "Idle" /\ calls[c].run_case.mode = "simulate") =>
              \A k \in DOMAIN calls[c].stages : calls[c].stages[k] # "Optimizing"
    /\ \A c, d \in CallIds :
          (/\ CallDone(c) /\ CallDone(d)
           /\ calls[c].run_case.mode = "simulate"
           /\ calls[d].run_case.mode = "simulate"
           /\ calls[c].plant_graph = calls[d].plant_graph
           /\ Sequential(c, d)) =>
              /\ calls[c].result.summary = calls[d].result.summary
              /\ calls[c].result.unit_states = calls[d].result.unit_states
              /\ calls[c].result.mass_energy_balance
                    = calls[d].result.mass_energy_balance

\* two finished simulate-mode solves of one graph with a unit, one for
\* max_power without pricing and one for max_revenue with pricing
C11_Witness ==
    /\ CallDone("c1") /\ CallDone("c2")
    /\ Sequential("c1", "c2")
    /\ calls["c1"].plant_graph = calls["c2"].plant_graph
    /\ calls["c1"].plant_graph.units # <<>>
    /\ calls["c1"].run_case.mode = "simulate"
    /\ calls["c2"].run_case.mode = "simulate"
    /\ calls["c1"].run_case.objective # calls["c2"].run_case.objective
    /\ calls["c1"].run_case.pricing # calls["c2"].run_case.pricing
    /\ calls["c1"].result.unit_states = calls["c2"].result.unit_states

\* C12: two finished calls on PlantGraphs of equal content that do not
\* overlap on an engine report the same plant_hash, on the same or on
\* different engines, with any RunCase, whichever call came first.
C12_PlantHashOfContent ==
    \A c, d \in CallIds :
        (/\ CallDone(c) /\ CallDone(d)
         /\ GraphContent(calls[c].plant_graph) = GraphContent(calls[d].plant_graph)
         /\ Sequential(c, d)) =>
            calls[c].result.meta.plant_hash = calls[d].result.meta.plant_hash

\* two solves on one engine, one after the other, with different RunCases, of
\* graphs whose params were written in different orders
C12_Witness ==
    /\ CallDone("c1") /\ CallDone("c2")
    /\ Sequential("c1", "c2")
    /\ calls["c1"].engine = calls["c2"].engine
    /\ calls["c1"].run_case # calls["c2"].run_case
    /\ calls["c1"].plant_graph # calls["c2"].plant_graph
    /\ GraphContent(calls["c1"].plant_graph) = GraphContent(calls["c2"].plant_graph)
    /\ calls["c1"].result.meta.plant_hash = calls["c2"].result.meta.plant_hash

\* C13 as stated: two finished calls on one engine, one after the other, with
\* the same PlantGraph and the same RunCase return equal Results, meta
\* included.
C13_RerunIdentical ==
    \A c, d \in CallIds :
        (/\ CallDone(c) /\ CallDone(d)
         /\ calls[c].engine = calls[d].engine
         /\ calls[c].plant_graph = calls[d].plant_graph
         /\ calls[c].run_case = calls[d].run_case
         /\ Sequential(c, d)) =>
            calls[c].result = calls[d].result

\* C15 as stated: the Result of every call, overlapping or not, on a shared
\* engine or not, is that of its own PlantGraph: it carries the hash of the
\* graph the call was given and a state for exactly the units of that graph.
C15_NoSharedWorkingState ==
    \A c \in CallIds :
        CallDone(c) =>
            /\ calls[c].result.meta.plant_hash
                  = CalculatePlantHash(calls[c].plant_graph)
            /\ DOMAIN calls[c].result.unit_states
                  = DeclaredIds(calls[c].plant_graph)


\* C37: the optimize step leaves the solver state alone: two solves of one
\* PlantGraph that do not overlap on an engine, one in optimize and one in
\* simulate mode, return the same summary, unit_states, violations and
\* mass_energy_balance, and evaluate was invoked on the same units in both.
C37_OptimizeChangesNothing ==
    \A c, d \in CallIds :
        (/\ CallDone(c) /\ CallDone(d)
         /\ calls[c].run_case.mode = "optimize"
         /\ calls[d].run_case.mode = "simulate"
         /\ calls[c].plant_graph = calls[d].plant_graph
         /\ Sequential(c, d)) =>
            /\ calls[c].result.summary = calls[d].result.summary
            /\ calls[c].result.unit_states = calls[d].result.unit_states
            /\ calls[c].result.violations = calls[d].result.violations
            /\ calls[c].result.mass_energy_balance
                  = calls[d].result.mass_energy_balance
            /\ calls[c].evalLog = calls[d].evalLog

\* an optimize-mode and a simulate-mode solve of one graph with a unit, both
\* finished, the optimize step taken in the first
C37_Witness ==
    /\ CallDone("c1") /\ CallDone("c2")
    /\ Sequential("c1", "c2")
    /\ calls["c1"].plant_graph = calls["c2"].plant_graph
    /\ calls["c1"].plant_graph.units # <<>>
    /\ calls["c1"].run_case.mode = "optimize"
    /\ calls["c2"].run_case.mode = "simulate"
    /\ \E k \in DOMAIN calls["c1"].stages : calls["c1"].stages[k] = "Optimizing"
    /\ calls["c1"].evalLog # <<>>

\* ------------------------------------------------- claims on the registry

\* the classes discovery is offered: by the entry points, by the units package
OfferedClasses ==
    {entry_points[i] : i \in 1..Len(entry_points)}
        \cup {PackageClasses[i] : i \in 1..Len(PackageClasses)}

\* the steps of thread t inside an operation
StepsInside(t) == threads[t].pc # "idle" /\ threads'[t] # threads[t]

\* C16: the body of discover_units is begun at most once per registry, also
\* when two threads touch the registry for the first time concurrently.
C16_DiscoveryAtMostOnce == reglog.runs <= 1

\* C17: register_unit with a type key that is already registered raises and
\* leaves the registry unchanged, and no step of any registry operation
\* removes a bound key or binds it to another class.
C17_RegistrationAppendOnly ==
    [][ /\ \A k \in DOMAIN registry :
              k \in DOMAIN registry' /\ registry'[k] = registry[k]
        /\ \A t \in DOMAIN threads :
              ( /\ threads[t].pc = "register"
                /\ StepsInside(t)
                /\ threads[t].arg.type_key \in DOMAIN registry )
              => ( /\ registry' = registry
                   /\ threads'[t].pc = "idle"
                   /\ threads'[t].answer # None ) ]_vars

\* a register_unit call met a bound key and raised
C17_Witness ==
    \E t \in DOMAIN threads :
        /\ threads[t].op = "register_unit"
        /\ threads[t].pc = "idle"
        /\ threads[t].answer # None
        /\ threads[t].arg.type_key \in DOMAIN registry
        /\ registry[threads[t].arg.type_key] # threads[t].arg.name

\* C18: when discover_units has returned (the flag is set), the type key of
\* every class offered by the entry points or found in the units package is
\* bound in the registry.
C18_DiscoveryComplete ==
    discovered => \A unit_class \in OfferedClasses : unit_class.type_key \in DOMAIN registry

\* C19: a get_unit_class, list_unit_types or discover_units call that began
\* after discovery completed changes neither the mapping nor the flag, and
\* begins no discovery body.
C19_PureReadsAfterDiscovery ==
    [][ \A t \in DOMAIN threads :
          ( /\ threads[t].after
            /\ threads[t].op \in {"get_unit_class", "list_unit_types", "discover_units"}
            /\ StepsInside(t) )
          => ( /\ registry' = registry
               /\ discovered' = discovered
               /\ reglog' = reglog ) ]_vars

\* each of the three operations has been called after discovery completed,
\* and returned
C19_Witness ==
    /\ \E t \in DOMAIN threads :
          /\ threads[t].after
          /\ threads[t].op = "discover_units"
          /\ threads[t].pc = "idle"
    /\ \E t \in DOMAIN threads :
          /\ threads[t].after
          /\ threads[t].op \in {"get_unit_class", "list_unit_types"}
          /\ threads[t].pc = "idle"
          /\ threads[t].answer # None


\* ------------------------------------------- claims on the functions
\* the call in progress or last made is a direct call of op
DirectCall(op) == args # None /\ args.op = op

\* the evaluate calls that returned
Returned == {k \in DOMAIN evalLog : evalLog[k].error = None}

\* ... with an inlet and an outlet state that carry enthalpy and mass flow
WithBothStates ==
    {k \in Returned :
        /\ DOMAIN evalLog[k].inputs = {"inlet", "outlet"}
        /\ \A p \in {"inlet", "outlet"} :
              {"h_kJ_kg", "m_dot_kg_s"} \subseteq DOMAIN evalLog[k].inputs[p]}

\* ... with an inlet state only, which carries enthalpy and mass flow
WithInletOnly ==
    {k \in Returned :
        /\ DOMAIN evalLog[k].inputs = {"inlet"}
        /\ {"h_kJ_kg", "m_dot_kg_s"} \subseteq DOMAIN evalLog[k].inputs["inlet"]}

\* eta_isentropic * mech_efficiency * generator_efficiency, in 1e-9
EfficiencyProduct(params) ==
    params.eta_isentropic * params.mech_efficiency * params.generator_efficiency

ShaftPowerOf(k) == evalLog[k].outputs["outlet"]["shaft_power_MW"]

\* C23 as stated: with an inlet and an outlet state, the shaft power is
\* m_dot * (h_in - h_out) * eta_isentropic * mech_efficiency *
\* generator_efficiency / 1000, m_dot being the steam flow into the turbine.
C23_Original ==
    \A k \in WithBothStates :
        LET inlet == evalLog[k].inputs["inlet"]
            outlet == evalLog[k].inputs["outlet"]
        IN  ShaftPowerOf(k) =
               inlet["m_dot_kg_s"] * (inlet["h_kJ_kg"] - outlet["h_kJ_kg"])
                                   * EfficiencyProduct(evalLog[k].params)

\* C23 amended: the shaft power is m_dot * max(h_in - h_out, 0) * eta_isentropic
\* * mech_efficiency * generator_efficiency / 1000, where m_dot is the mass
\* flow of the supplied outlet state when that is not zero and the mass
\* flow of the inlet state otherwise.
C23_ShaftPower ==
    \A k \in WithBothStates :
        LET inlet == evalLog[k].inputs["inlet"]
            outlet == evalLog[k].inputs["outlet"]
            m_dot == IF outlet["m_dot_kg_s"] # 0 THEN outlet["m_dot_kg_s"]
                     ELSE inlet["m_dot_kg_s"]
            drop == IF inlet["h_kJ_kg"] >= outlet["h_kJ_kg"]
                    THEN inlet["h_kJ_kg"] - outlet["h_kJ_kg"] ELSE 0
        IN  ShaftPowerOf(k) = m_dot * drop * EfficiencyProduct(evalLog[k].params)

\* a turbine was evaluated with an enthalpy rise across it and steam flowing
C23_Witness ==
    \E k \in WithBothStates :
        /\ evalLog[k].inputs["inlet"]["h_kJ_kg"] < evalLog[k].inputs["outlet"]["h_kJ_kg"]
        /\ evalLog[k].inputs["outlet"]["m_dot_kg_s"] > 0
        /\ ShaftPowerOf(k) = 0

\* C24 as stated: with an inlet state only, the shaft power is m_dot * 200 *
\* eta_isentropic * mech_efficiency * generator_efficiency / 1000 (the
\* quotient of the power by the efficiency product is m_dot * 200), and it
\* is positive for a positive mass flow.
C24_DefaultEnthalpyDrop ==
    \A k \in WithInletOnly :
        LET m_dot == evalLog[k].inputs["inlet"]["m_dot_kg_s"]
            product == EfficiencyProduct(evalLog[k].params)
        IN  /\ product > 0 =>
                  /\ ShaftPowerOf(k) % product = 0
                  /\ ShaftPowerOf(k) \div product = m_dot * 200
            /\ (product > 0 /\ m_dot > 0) => ShaftPowerOf(k) > 0

\* C25 as stated: called the way its signature accepts, evaluate returns for
\* every inputs mapping; the result has an outlet of medium steam that
\* carries shaft_power_MW, and every input port.
C25_AlwaysReturnsOutlet ==
    \A k \in DOMAIN evalLog :
        ~CallFormRaises(evalLog[k].form) =>
            /\ evalLog[k].error = None
            /\ "outlet" \in DOMAIN evalLog[k].outputs
            /\ evalLog[k].outputs["outlet"]["medium"] = "steam"
            /\ "shaft_power_MW" \in DOMAIN evalLog[k].outputs["outlet"]
            /\ DOMAIN evalLog[k].inputs \subseteq DOMAIN evalLog[k].outputs

\* C26: evaluate leaves the caller's inputs mapping, its port states and the
\* instance's params as they were, and two calls of the same form with equal
\* inputs and params give the same outcome.
C26_EvaluatePure ==
    /\ \A k \in DOMAIN evalLog :
          /\ evalLog[k].inputs_after = evalLog[k].inputs
          /\ evalLog[k].params_after = evalLog[k].params
    /\ \A j, k \in DOMAIN evalLog :
          ( /\ evalLog[j].inputs = evalLog[k].inputs
            /\ evalLog[j].params = evalLog[k].params
            /\ evalLog[j].form = evalLog[k].form )
          => ( /\ evalLog[j].outputs = evalLog[k].outputs
               /\ evalLog[j].error = evalLog[k].error )

\* a turbine returned twice for inputs that supply an outlet state
C26_Witness ==
    /\ Len(evalLog) = 2
    /\ Returned = {1, 2}
    /\ "outlet" \in DOMAIN evalLog[1].inputs
    /\ evalLog[1].inputs["outlet"] # evalLog[1].outputs["outlet"]

\* C27 as stated: whenever evaluate returns for an inlet state with a mass
\* flow, the outlet state it returns has that mass flow.
C27_MassFlowConserved ==
    \A k \in Returned :
        ( /\ "inlet" \in DOMAIN evalLog[k].inputs
          /\ "m_dot_kg_s" \in DOMAIN evalLog[k].inputs["inlet"] )
        => ( /\ "m_dot_kg_s" \in DOMAIN evalLog[k].outputs["outlet"]
             /\ evalLog[k].outputs["outlet"]["m_dot_kg_s"]
                    = evalLog[k].inputs["inlet"]["m_dot_kg_s"] )

\* the fields the error of a failed construction names
FieldsListed(exception) == {exception.arg}

\* C28 as stated: the error of a construction with fields out of range
\* names every such field.
C28_EveryViolatedFieldListed ==
    (DirectCall("create_unit") /\ pc = "Raised") =>
        \A k \in ViolatedFields(AsDict(args.params)) :
            EfficiencyFields[k] \in FieldsListed(error)

\* C29: the mapping merge_with_defaults returns has the default keys of the
\* unit type and the user's keys, with the user's value for each of the
\* user's keys and the default value for the others.
C29_MergeKeyUnion ==
    (DirectCall("merge_with_defaults") /\ pc = "Returned") =>
        LET unit_defaults == IF args.unit_type \in DOMAIN HardcodedDefaults
                             THEN HardcodedDefaults[args.unit_type] ELSE EmptyDict
            items == args.user_params
            user_keys == {items[k][1] : k \in DOMAIN items}
        IN  /\ DOMAIN result = DOMAIN unit_defaults \cup user_keys
            /\ \A k \in DOMAIN items : result[items[k][1]] = items[k][2]
            /\ \A key \in DOMAIN unit_defaults \ user_keys :
                  result[key] = unit_defaults[key]

\* a merge that overrode one default, kept the others and passed an unknown
\* key through
C29_Witness ==
    /\ DirectCall("merge_with_defaults")
    /\ pc = "Returned"
    /\ args.unit_type = "steam_turbine"
    /\ args.user_params = MixedParams
    /\ result["eta_isentropic"] = 950
    /\ result["mech_efficiency"] = 985
    /\ result["blade_rows"] = 3

\* C30 as stated: a ThermodynamicState of a medium other than steam, water
\* or gas is not constructed: the property evaluation raises.
C30_UnsupportedMediumFails ==
    ( /\ DirectCall("ThermodynamicState")
      /\ args.medium \notin {"steam", "water", "gas"} )
    => ( pc = "Raised" /\ result = None /\ error # None )

C34_ErrorsBecomeHttp4xx ==
    ( pc = "Responded" /\ \E k \in DOMAIN stages : stages[k] = "Failed" )
    => /\ args.raised # None
       /\ result = None
       /\ error # None
       /\ error.exc = "HTTPException"
       /\ error.status_code \in 400..499
       /\ error.detail[2] = StrOf(args.raised)

\* a solve that failed in a unit's evaluation was answered
C34_Witness ==
    /\ pc = "Responded"
    /\ evalLog # <<>>
    /\ args.raised = EvaluateCallError
    /\ error.exc = "HTTPException"

\* C35: get_schema and get_example_graph asked for a name that is not in the
\* index raise HTTPException 404 with a detail naming what was asked for, and
\* return the stored document exactly when the name is in the index.
C35_UnknownNameIs404 ==
    ( DirectCall("get_schema") \/ DirectCall("get_example_graph") ) =>
        IF args.name \notin args.index
        THEN /\ args.returned = None
             /\ error # None
             /\ error.exc = "HTTPException"
             /\ error.status_code = 404
             /\ error.detail[2] = args.name
        ELSE /\ error = None
             /\ args.returned # None
             /\ DirectCall("get_example_graph") =>
                    args.returned.document = args.on_disk.graphs[args.name]

\* the cache of a loader holds what its handler last returned
CacheIsLastReturned(loader, handler) ==
    lru_cache[loader].filled =>
        /\ responses[handler].called
        /\ lru_cache[loader].value = responses[handler].value

\* C38: list_schemas, get_schema and get_unit_palette hand out copies, so
\* that the caches stay what the handlers returned whatever the caller does
\* to a returned value; a call without refresh returns what the call before
\* returned, and a call with refresh=True returns what is on disk.
C38_CachesIsolated ==
    /\ CacheIsLastReturned("schema_index", "list_schemas")
    /\ CacheIsLastReturned("unit_palette", "get_unit_palette")
    /\ ( DirectCall("list_schemas") \/ DirectCall("get_unit_palette") ) =>
          /\ ( ~args.refresh /\ args.previous.called )
                => args.returned = args.previous.value
          /\ args.refresh =>
                args.returned = IF args.op = "list_schemas"
                                THEN LoadSchemaIndex(args.on_disk)
                                ELSE LoadUnitPalette(args.on_disk)

\* list_schemas was called again without refresh after the files changed,
\* and the caller has changed what it was handed
C38_Witness ==
    /\ DirectCall("list_schemas")
    /\ ~args.refresh
    /\ args.previous.called
    /\ args.on_disk.schemas # args.returned
    /\ result.value # args.returned
    /\ lru_cache.schema_index.value = args.returned

\* ------------------------------------------------- claims on the dev launcher
Launched == pc # "Idle"

Running(c) == Launched /\ ~process[c].exited

TerminateSent(c) == Launched /\ process[c].terminate_sent

KillSent(c) == Launched /\ process[c].kill_sent

\* the stop task of c waits for the exit with the timeout running
TimeoutRunning(c) == Launched /\ tasks[c].stop_task = "wait_for"

====
